---- MODULE Spec2Model ----
(***************************************************************************)
(* Model of the fct_stats scraper core: the school matcher, the event      *)
(* matcher, the shared value parsers and the four result extractors.       *)
(*                                                                         *)
(* Text is a sequence of one-character strings, so that lowercasing,       *)
(* trimming, regular expressions and similarity scores are computed on     *)
(* characters as the Python code computes them.                            *)
(***************************************************************************)
EXTENDS Integers, Sequences, FiniteSets, TLC

VARIABLES
    \* SchoolMatcher (src/scraper/school_matcher.py)
    target_aliases,      \* self.target_aliases: lowercased alias list
    threshold,           \* self.threshold
    excluded_aliases,    \* self.excluded_aliases: lowercased alias list
    school_pc,           \* "idle" | "returned": position of the caller
    school_name,         \* argument of the last is_target_school call
    school_out,          \* [ret, line]: value returned and the return line
    \* EventMatcher (src/scraper/event_matcher.py)
    events,              \* self.events: the configured canonical events
    alias_map,           \* self.alias_map: <<[key, val]>> in dict order
    event_pc,            \* "idle" | "returned"
    event_name,          \* label argument of the last match call
    event_gender,        \* gender argument of the last match call
    event_out,           \* [ret, line, alias]: result, return line, matched key
    \* BaseParser value parsers (src/scraper/parsers/base_parser.py)
    parse_pc,            \* "idle" | "returned"
    parse_fn,            \* the parser called last
    parse_in,            \* its argument
    parse_out,           \* [kind, num, den, first, last]: what it produced
    fmt_seconds,         \* hundredths of a second handed to format_time
    \* the extractors (src/scraper/parsers/)
    PARSERS,             \* registry: name -> attributes of the shared instance
    ex_dir,              \* which files and event configs the run has
    ex_keep,             \* how many earlier calls ex_history remembers
    ex_history,          \* the last calls, oldest first
    ex_pc,               \* "idle" | "returned"
    ex_parser,           \* registry name of the extractor called last
    ex_file,             \* the file it was given
    ex_cfg,              \* its event_config
    ex_out,              \* [kind, results]: what the call produced
    \* Database (src/scraper/database.py)
    db_meets,            \* the meets table: <<[id, name, meet_date, level]>>
    db_events,           \* the events table: <<[id, name]>>
    db_added,            \* the results handed to add_result, in order
    db_calls,            \* direct get_or_create calls and the ids returned
    \* Scraper (src/scraper/scraper.py)
    sc_entry,            \* "scrape_all" | "scrape_directory": the call made
    sc_dir_exists,       \* whether the directory handed over exists
    yaml_files,          \* the meet files glob found, in list order
    sc_mappings,         \* self.current_name_mappings
    sc_pc,               \* "start" | "loop" | "done" | "aborted"
    sc_i,                \* position of the loop in yaml_files
    sc_log               \* the lines logged so far

school_vars == <<target_aliases, threshold, excluded_aliases,
                 school_pc, school_name, school_out>>

event_vars == <<events, alias_map, event_pc, event_name, event_gender, event_out>>

parse_vars == <<parse_pc, parse_fn, parse_in, parse_out, fmt_seconds>>

extract_vars == <<PARSERS, ex_dir, ex_keep, ex_history, ex_pc, ex_parser,
                  ex_file, ex_cfg, ex_out>>

scraper_vars == <<db_meets, db_events, db_added, db_calls, sc_entry,
                  sc_dir_exists, yaml_files, sc_mappings, sc_pc, sc_i, sc_log>>

vars == <<school_vars, event_vars, parse_vars, extract_vars, scraper_vars>>

\* what the operations of one component leave alone
except_school == <<event_vars, parse_vars, extract_vars, scraper_vars>>
except_event == <<school_vars, parse_vars, extract_vars, scraper_vars>>
except_parse == <<school_vars, event_vars, extract_vars, scraper_vars>>
except_extract == <<school_vars, event_vars, parse_vars, scraper_vars>>
except_scraper == <<school_vars, event_vars, parse_vars, extract_vars>>

----------------------------------------------------------------------------
(* Bounds of the model *)

\* longest affiliation string handed to is_target_school
MaxNameLen == 4
\* longest configured school alias
MaxAliasLen == 3
\* longest free-text stem of an event label
MaxStemLen == 4
\* most canonical events in a configured taxonomy
MaxEvents == 2
\* longest text, in characters, handed to a value parser
MaxTokenLen == 4
\* largest time, in hundredths of a second, that is formatted: 5999.99 s
MaxHundredths == 599999

----------------------------------------------------------------------------
(* Text helpers *)

Str(s) == [i \in 1..Len(s) |-> SubSeq(s, i, i)]

Range(f) == {f[i] : i \in DOMAIN f}

Max(a, b) == IF a >= b THEN a ELSE b

Min(a, b) == IF a <= b THEN a ELSE b

\* all texts over the characters cs with lo..hi characters
Texts(cs, lo, hi) == UNION {[1..n -> cs] : n \in lo..hi}

UpperCase == Str("ABCDEFGHIJKLMNOPQRSTUVWXYZ")
LowerCase == Str("abcdefghijklmnopqrstuvwxyz")

\* str.lower() on one ASCII character
lower_char(c) ==
    IF \E i \in 1..26 : UpperCase[i] = c
    THEN LowerCase[CHOOSE i \in 1..26 : UpperCase[i] = c]
    ELSE c

\* str.lower()
lower(s) == [i \in 1..Len(s) |-> lower_char(s[i])]

\* characters Python's str.strip() and the regex class \s remove
IsSpace(c) == c \in {" ", "\t", "\n"}

RECURSIVE lstrip(_)
lstrip(s) == IF s # <<>> /\ IsSpace(s[1]) THEN lstrip(Tail(s)) ELSE s

RECURSIVE rstrip(_)
rstrip(s) ==
    IF s # <<>> /\ IsSpace(s[Len(s)]) THEN rstrip(SubSeq(s, 1, Len(s) - 1)) ELSE s

\* str.strip()
strip(s) == rstrip(lstrip(s))

\* str.startswith
StartsWith(s, w) == Len(s) >= Len(w) /\ SubSeq(s, 1, Len(w)) = w

\* str.endswith
EndsWith(s, w) ==
    Len(s) >= Len(w) /\ SubSeq(s, Len(s) - Len(w) + 1, Len(s)) = w

\* Python's None
None == <<"<None>">>

\* Python's  sub in s  on strings
contains(s, sub) ==
    \E i \in 0..(Len(s) - Len(sub)) : SubSeq(s, i + 1, i + Len(sub)) = sub

----------------------------------------------------------------------------
(* rapidfuzz similarity scores.  A score is the exact fraction num/den of   *)
(* the 0-100 scale: fuzz.ratio(a, b) = 100 * 2*LCS(a, b) / (len a + len b). *)

\* one row of the longest-common-subsequence table, built left to right: the
\* row of the character ai of a, from the row before (prev[k] is column k - 1)
RECURSIVE LcsRow(_, _, _, _, _)
LcsRow(ai, b, prev, cur, j) ==
    IF j > Len(b) THEN cur
    ELSE LcsRow(ai, b, prev,
                Append(cur, IF ai = b[j] THEN prev[j] + 1
                            ELSE Max(prev[j + 1], cur[j])),
                j + 1)

\* the rows one after the other; each row is complete before the next begins
RECURSIVE LcsRows(_, _, _, _)
LcsRows(a, b, i, prev) ==
    IF i > Len(a) THEN prev[Len(b) + 1]
    ELSE LET row == LcsRow(a[i], b, prev, <<0>>, 1)
         IN  IF Len(row) = Len(b) + 1 THEN LcsRows(a, b, i + 1, row) ELSE 0

\* the table over two strings, from an all-zero first row
LcsTable(a, b) == LcsRows(a, b, 1, [j \in 1..(Len(b) + 1) |-> 0])

\* length of the longest common prefix and, for strings with no common first
\* character, of the longest common suffix
RECURSIVE CommonPrefix(_, _, _)
CommonPrefix(a, b, n) ==
    IF n < Len(a) /\ n < Len(b) /\ a[n + 1] = b[n + 1]
    THEN CommonPrefix(a, b, n + 1) ELSE n

RECURSIVE CommonSuffix(_, _, _)
CommonSuffix(a, b, n) ==
    IF n < Len(a) /\ n < Len(b) /\ a[Len(a) - n] = b[Len(b) - n]
    THEN CommonSuffix(a, b, n + 1) ELSE n

\* length of a longest common subsequence: the common prefix and suffix are
\* part of it, the table is computed for what lies between them
Lcs(a, b) ==
    LET p  == CommonPrefix(a, b, 0)
        a1 == SubSeq(a, p + 1, Len(a))
        b1 == SubSeq(b, p + 1, Len(b))
        s  == CommonSuffix(a1, b1, 0)
    IN  p + s + LcsTable(SubSeq(a1, 1, Len(a1) - s), SubSeq(b1, 1, Len(b1) - s))

\* fuzz.ratio: normalized Indel similarity; two empty strings score 100
ratio(a, b) ==
    IF Len(a) + Len(b) = 0 THEN [num |-> 100, den |-> 1]
    ELSE [num |-> 200 * Lcs(a, b), den |-> Len(a) + Len(b)]

\* score >= n for an integer n
ScoreGE(sc, n) == sc.num >= n * sc.den

\* fuzz.ratio(a, b) >= n.  A common subsequence is no longer than the shorter
\* string, so strings of too different lengths are settled without the table.
RatioGE(a, b, n) ==
    /\ 200 * Min(Len(a), Len(b)) >= n * (Len(a) + Len(b))
    /\ ScoreGE(ratio(a, b), n)

\* score x > score y
ScoreGT(x, y) == x.num * y.den > y.num * x.den

\* partial_ratio aligns the shorter string with these windows of the longer
\* one: leading partial windows, full-length windows, trailing windows
WindowGE(short, long, n) ==
    \/ \E i \in 1..(Len(short) - 1) :
          RatioGE(short, SubSeq(long, 1, i), n)
    \/ \E i \in 0..(Len(long) - Len(short) - 1) :
          RatioGE(short, SubSeq(long, i + 1, i + Len(short)), n)
    \/ \E i \in (Len(long) - Len(short))..(Len(long) - 1) :
          RatioGE(short, SubSeq(long, i + 1, Len(long)), n)

\* fuzz.partial_ratio(a, b) >= n
PartialRatioGE(a, b, n) ==
    LET short == IF Len(a) <= Len(b) THEN a ELSE b
        long  == IF Len(a) <= Len(b) THEN b ELSE a
    IN  IF Len(a) = 0 /\ Len(b) = 0 THEN 100 >= n
        ELSE IF Len(short) = 0 THEN 0 >= n
        ELSE \/ WindowGE(short, long, n)
             \/ Len(a) = Len(b) /\ WindowGE(long, short, n)

----------------------------------------------------------------------------
(* SchoolMatcher *)

\* score at which an excluded alias vetoes a name (school_matcher.py:51)
ExclusionThreshold == 85
\* partial-overlap score needed in the substring and abbreviation checks
PartialThreshold == 90
\* shortest name the partial-overlap check of a target alias accepts
MinPartialLen == 4
\* match_threshold when the configuration gives none
DefaultThreshold == 80

\* step 2, one pass of the loop: the excluded alias vetoes the name
ExcludedHit(school_lower, excluded) ==
    \/ RatioGE(school_lower, excluded, ExclusionThreshold)
    \/ /\ contains(school_lower, excluded)
       /\ PartialRatioGE(school_lower, excluded, PartialThreshold)

\* step 3, first test of the loop: full-string similarity to the alias
TargetFullHit(school_lower, alias, th) ==
    RatioGE(school_lower, alias, th)

\* step 3, second test of the loop: partial overlap with the alias
TargetPartialHit(school_lower, alias) ==
    /\ PartialRatioGE(school_lower, alias, PartialThreshold)
    /\ Len(school_lower) >= MinPartialLen

\* the first index of a loop at which it returns (0: the loop falls through)
FirstHit(hits) ==
    IF hits = {} THEN 0 ELSE CHOOSE i \in hits : \A k \in hits : i <= k

\* a bug: the exclusion loop runs before the exact-alias test
is_target_school_exclusion_first(name, targets, th, excluded) ==
    LET school_lower == strip(lower(name))
    IN  IF name = <<>> THEN [ret |-> FALSE, line |-> 39]
        ELSE IF \E i \in DOMAIN excluded : ExcludedHit(school_lower, excluded[i])
             THEN [ret |-> FALSE, line |-> 52]
        ELSE IF school_lower \in Range(targets) THEN [ret |-> TRUE, line |-> 46]
        ELSE IF \E i \in DOMAIN targets :
                    \/ TargetFullHit(school_lower, targets[i], th)
                    \/ TargetPartialHit(school_lower, targets[i])
             THEN [ret |-> TRUE, line |-> 61]
        ELSE [ret |-> FALSE, line |-> 68]

\* a bug: the fuzzy target loop runs before the exclusion loop
is_target_school_fuzzy_first(name, targets, th, excluded) ==
    LET school_lower == strip(lower(name))
    IN  IF name = <<>> THEN [ret |-> FALSE, line |-> 39]
        ELSE IF school_lower \in Range(targets) THEN [ret |-> TRUE, line |-> 46]
        ELSE IF \E i \in DOMAIN targets :
                    \/ TargetFullHit(school_lower, targets[i], th)
                    \/ TargetPartialHit(school_lower, targets[i])
             THEN [ret |-> TRUE, line |-> 61]
        ELSE IF \E i \in DOMAIN excluded : ExcludedHit(school_lower, excluded[i])
             THEN [ret |-> FALSE, line |-> 52]
        ELSE [ret |-> FALSE, line |-> 68]

\* a bug: the partial-overlap test accepts names of any length
is_target_school_no_length_guard(name, targets, th, excluded) ==
    LET school_lower == strip(lower(name))
    IN  IF name = <<>> THEN [ret |-> FALSE, line |-> 39]
        ELSE IF school_lower \in Range(targets) THEN [ret |-> TRUE, line |-> 46]
        ELSE IF \E i \in DOMAIN excluded : ExcludedHit(school_lower, excluded[i])
             THEN [ret |-> FALSE, line |-> 52]
        ELSE IF \E i \in DOMAIN targets :
                    \/ TargetFullHit(school_lower, targets[i], th)
                    \/ PartialRatioGE(school_lower, targets[i], PartialThreshold)
             THEN [ret |-> TRUE, line |-> 66]
        ELSE [ret |-> FALSE, line |-> 68]

\* SchoolMatcher.is_target_school: the value returned and the line returning it
is_target_school(name, targets, th, excluded) ==
    LET school_lower == strip(lower(name))
        e == FirstHit({i \in DOMAIN excluded :
                          ExcludedHit(school_lower, excluded[i])})
        t == FirstHit({i \in DOMAIN targets :
                          \/ TargetFullHit(school_lower, targets[i], th)
                          \/ TargetPartialHit(school_lower, targets[i])})
    IN  IF name = <<>> THEN [ret |-> FALSE, line |-> 39]
        ELSE IF school_lower \in Range(targets) THEN [ret |-> TRUE, line |-> 46]
        ELSE IF e # 0
             THEN [ret |-> FALSE,
                   line |-> IF RatioGE(school_lower, excluded[e],
                                       ExclusionThreshold) THEN 52 ELSE 55]
        ELSE IF t # 0
             THEN [ret |-> TRUE,
                   line |-> IF TargetFullHit(school_lower, targets[t], th)
                            THEN 61 ELSE 66]
        ELSE [ret |-> FALSE, line |-> 68]

\* characters of configured school aliases (already lowercased by __init__)
AliasChars == {"f", "c"}
\* characters of affiliation strings found in documents
NameChars == {"f", "c", "F", " "}

\* configured aliases: lowercase names of two letters or more
SchoolAliases == {a \in Texts(AliasChars, 2, MaxAliasLen) : a[1] = "f"}

\* exclusion lists of near-miss schools: none, a one-letter school, or a school
\* whose alias extends the target's first alias by a letter
ExcludedLists(a) ==
    {<<>>} \cup {<<<<c>>>> : c \in AliasChars}
           \cup {<<Append(a, c)>> : c \in AliasChars}

\* the matcher before any configuration is loaded
SchoolUnused ==
    /\ target_aliases = <<>>
    /\ threshold = DefaultThreshold
    /\ excluded_aliases = <<>>
    /\ school_pc = "idle"
    /\ school_name = <<>>
    /\ school_out = [ret |-> FALSE, line |-> 0]

\* SchoolMatcher.__init__: the matcher as built from a configuration
SchoolInit ==
    /\ target_aliases \in {<<a>> : a \in SchoolAliases}
                          \cup {<<a, Str("cc")>> : a \in SchoolAliases}
    /\ threshold \in {DefaultThreshold, 90}
    /\ excluded_aliases \in ExcludedLists(target_aliases[1])
    /\ school_pc = "idle"
    /\ school_name = <<>>
    /\ school_out = [ret |-> FALSE, line |-> 0]

\* a caller asks whether  name  denotes the target school
IsTargetSchool ==
    /\ school_pc = "idle"
    /\ \E name \in Texts(NameChars, 0, MaxNameLen) :
          /\ school_name' = name
          /\ school_out' = is_target_school(name, target_aliases, threshold,
                                            excluded_aliases)
    /\ school_pc' = "returned"
    /\ UNCHANGED <<target_aliases, threshold, excluded_aliases, except_school>>

\* the caller has used the answer; the matcher keeps only its configuration
SchoolDone ==
    /\ school_pc = "returned"
    /\ school_pc' = "idle"
    /\ school_name' = <<>>
    /\ school_out' = [ret |-> FALSE, line |-> 0]
    /\ UNCHANGED <<target_aliases, threshold, excluded_aliases, except_school>>

----------------------------------------------------------------------------
(* EventMatcher *)

\* score_cutoff handed to process.extractOne (event_matcher.py:64)
ScoreCutoff == 75

\* dict lookup and membership on the insertion-ordered alias map
HasKey(m, k) == \E i \in DOMAIN m : m[i].key = k
Lookup(m, k) == m[CHOOSE i \in DOMAIN m : m[i].key = k].val

\* self.alias_map[k] = v : a new key is appended, an old key keeps its place
DictSet(m, k, v) ==
    IF HasKey(m, k)
    THEN [i \in DOMAIN m |-> IF m[i].key = k THEN [key |-> k, val |-> v] ELSE m[i]]
    ELSE Append(m, [key |-> k, val |-> v])

RECURSIVE AddAliases(_, _, _)
AddAliases(m, aliases, canonical) ==
    IF aliases = <<>> THEN m
    ELSE AddAliases(DictSet(m, lower(Head(aliases)), canonical),
                    Tail(aliases), canonical)

\* EventMatcher.__init__: the loop building alias -> canonical name
RECURSIVE BuildAliasMap(_, _)
BuildAliasMap(evs, m) ==
    IF evs = <<>> THEN m
    ELSE BuildAliasMap(Tail(evs),
             AddAliases(DictSet(m, lower(Head(evs).name), Head(evs).name),
                        Head(evs).aliases, Head(evs).name))

\* re.sub(r'^(boys?|girls?|mens?|womens?)\s+', '', s)
GenderPrefixes ==
    <<Str("boys"), Str("boy"), Str("girls"), Str("girl"),
      Str("mens"), Str("men"), Str("womens"), Str("women")>>

sub_gender_prefix(s) ==
    LET hits == {i \in DOMAIN GenderPrefixes :
                    /\ StartsWith(s, GenderPrefixes[i])
                    /\ Len(s) > Len(GenderPrefixes[i])
                    /\ IsSpace(s[Len(GenderPrefixes[i]) + 1])}
    IN  IF hits = {} THEN s
        ELSE lstrip(SubSeq(s, Len(GenderPrefixes[FirstHit(hits)]) + 1, Len(s)))

\* re.sub(r'\s+(finals?|prelims?|preliminaries?|heats?)$', '', s)
RoundSuffixes ==
    <<Str("finals"), Str("final"), Str("prelims"), Str("prelim"),
      Str("preliminaries"), Str("preliminarie"), Str("heats"), Str("heat")>>

sub_round_suffix(s) ==
    LET hits == {i \in DOMAIN RoundSuffixes :
                    /\ EndsWith(s, RoundSuffixes[i])
                    /\ Len(s) > Len(RoundSuffixes[i])
                    /\ IsSpace(s[Len(s) - Len(RoundSuffixes[i])])}
    IN  IF hits = {} THEN s
        ELSE rstrip(SubSeq(s, 1, Len(s) - Len(RoundSuffixes[FirstHit(hits)])))

\* match, lines 46-52: the label as it is looked up
normalize(label) == strip(sub_round_suffix(sub_gender_prefix(strip(lower(label)))))

\* a bug: the best choice is taken whatever its score
extractOne_no_cutoff(query, choices) ==
    LET sc == [i \in DOMAIN choices |-> ratio(query, choices[i])]
    IN  IF choices = <<>> THEN 0
        ELSE CHOOSE i \in DOMAIN choices :
                /\ \A k \in DOMAIN choices : ~ScoreGT(sc[k], sc[i])
                /\ \A k \in DOMAIN choices : k < i => ScoreGT(sc[i], sc[k])

\* a bug: among equal best scores the last choice wins
extractOne_last_max(query, choices) ==
    LET sc == [i \in DOMAIN choices |-> ratio(query, choices[i])]
        ok == {i \in DOMAIN choices : RatioGE(query, choices[i], ScoreCutoff)}
    IN  IF ok = {} THEN 0
        ELSE CHOOSE i \in ok :
                /\ \A k \in ok : ~ScoreGT(sc[k], sc[i])
                /\ \A k \in ok : k > i => ScoreGT(sc[i], sc[k])

\* process.extractOne(query, choices, scorer=fuzz.ratio, score_cutoff=75):
\* the index of the first choice with the best score among those scoring at
\* least the cutoff (0: no result)
extractOne(query, choices) ==
    LET sc == [i \in DOMAIN choices |-> ratio(query, choices[i])]
        ok == {i \in DOMAIN choices : RatioGE(query, choices[i], ScoreCutoff)}
    IN  IF ok = {} THEN 0
        ELSE CHOOSE i \in ok :
                /\ \A k \in ok : ~ScoreGT(sc[k], sc[i])
                /\ \A k \in ok : k < i => ScoreGT(sc[i], sc[k])

\* EventMatcher.get_event_info: the first event of that name (0: None)
get_event_info(evs, canonical) ==
    FirstHit({i \in DOMAIN evs : evs[i].name = canonical})

\* EventMatcher._find_gender_alternative
find_gender_alternative(evs, event_lower, gender) ==
    LET hits == {i \in DOMAIN evs :
                    /\ evs[i].gender_specific = gender
                    /\ evs[i].category = "hurdles"
                    /\ contains(event_lower, Str("hurdle"))}
    IN  IF hits = {} THEN None ELSE evs[FirstHit(hits)].name

\* lines 67-80: what match returns once extractOne chose the key  i  (0: none)
FuzzyResult(evs, m, event_lower, gender, i) ==
    IF i = 0 THEN [ret |-> None, line |-> 80, alias |-> 0]
    ELSE LET canonical == m[i].val
             info == get_event_info(evs, canonical)
         IN  IF /\ info # 0
                /\ evs[info].gender_specific # "none"
                /\ gender # "none"
                /\ evs[info].gender_specific # gender
             THEN [ret |-> find_gender_alternative(evs, event_lower, gender),
                   line |-> 76, alias |-> i]
             ELSE [ret |-> canonical, line |-> 78, alias |-> i]

\* a bug: the gender check of the fuzzy path is also applied to an exact hit
match_exact_checks_gender(evs, m, label, gender) ==
    LET event_lower == normalize(label)
        keys == [i \in DOMAIN m |-> m[i].key]
    IN  IF label = <<>> THEN [ret |-> None, line |-> 44, alias |-> 0]
        ELSE IF HasKey(m, event_lower)
             THEN FuzzyResult(evs, m, event_lower, gender,
                              CHOOSE i \in DOMAIN m : m[i].key = event_lower)
        ELSE FuzzyResult(evs, m, event_lower, gender, extractOne(event_lower, keys))

\* EventMatcher.match: the result, the line returning it and, on the fuzzy
\* path, the index of the matched alias key
match(evs, m, label, gender) ==
    LET event_lower == normalize(label)
        keys == [i \in DOMAIN m |-> m[i].key]
    IN  IF label = <<>> THEN [ret |-> None, line |-> 44, alias |-> 0]
        ELSE IF HasKey(m, event_lower)
             THEN [ret |-> Lookup(m, event_lower), line |-> 56, alias |-> 0]
        ELSE FuzzyResult(evs, m, event_lower, gender, extractOne(event_lower, keys))

\* the canonical events a taxonomy is configured from
Event(name, aliases, category, gs) ==
    [name |-> Str(name), aliases |-> aliases, category |-> category,
     gender_specific |-> gs]

EventPool ==
    { Event("100m", <<>>, "sprint", "none"),
      Event("110m Hurdles", <<Str("110h")>>, "hurdles", "M"),
      Event("100m Hurdles", <<Str("100H")>>, "hurdles", "F"),
      Event("100", <<Str("100m")>>, "sprint", "none") }

\* taxonomies: the configured events in every order
EventTables ==
    {evs \in UNION {[1..n -> EventPool] : n \in 1..MaxEvents} :
        \A i, j \in DOMAIN evs : i # j => evs[i] # evs[j]}

\* labels found in documents
StemChars == {"1", "0", "h"}
Stems == Texts(StemChars, 1, MaxStemLen)
GenderTokens == {Str("boys"), Str("girls"), Str("men's"), Str("women's"), Str("mens")}
RoundTokens == {Str("finals"), Str("prelims"), Str("heats")}
LabelCores ==
    {e.name : e \in EventPool} \cup UNION {Range(e.aliases) : e \in EventPool}

Labels ==
    {<<>>} \cup Stems \cup {s \o Str(" hurdles") : s \in Stems}
    \cup LabelCores
    \cup {g \o <<" ">> \o c : g \in GenderTokens, c \in LabelCores}
    \cup {c \o <<" ">> \o r : c \in LabelCores, r \in RoundTokens}
    \cup {g \o <<" ">> \o c \o <<" ">> \o r :
             g \in GenderTokens, c \in LabelCores, r \in RoundTokens}

Genders == {"none", "M", "F"}

EventUnused ==
    /\ events = <<>>
    /\ alias_map = <<>>
    /\ event_pc = "idle"
    /\ event_name = <<>>
    /\ event_gender = "none"
    /\ event_out = [ret |-> None, line |-> 0, alias |-> 0]

\* EventMatcher.__init__
EventInit ==
    /\ events \in EventTables
    /\ alias_map = BuildAliasMap(events, <<>>)
    /\ event_pc = "idle"
    /\ event_name = <<>>
    /\ event_gender = "none"
    /\ event_out = [ret |-> None, line |-> 0, alias |-> 0]

\* a caller asks for the canonical event of a label
Match ==
    /\ event_pc = "idle"
    /\ \E label \in Labels, gender \in Genders :
          /\ event_name' = label
          /\ event_gender' = gender
          /\ event_out' = match(events, alias_map, label, gender)
    /\ event_pc' = "returned"
    /\ UNCHANGED <<events, alias_map, except_event>>

\* the caller has used the result; the matcher keeps only its configuration
EventDone ==
    /\ event_pc = "returned"
    /\ event_pc' = "idle"
    /\ event_name' = <<>>
    /\ event_gender' = "none"
    /\ event_out' = [ret |-> None, line |-> 0, alias |-> 0]
    /\ UNCHANGED <<events, alias_map, except_event>>

----------------------------------------------------------------------------
(* Shared value parsers (src/scraper/parsers/base_parser.py)               *)
(*                                                                         *)
(* A Python float is modelled by the exact decimal fraction [num, den] its *)
(* text denotes; the binary rounding of float() is far below the           *)
(* tolerances the parsers are used with.  The texts fed to the parsers     *)
(* hold no exponent, underscore, "inf" or "nan", the other forms float()   *)
(* accepts.                                                                *)

Digits == Str("0123456789")

IsDigit(c) == c \in Range(Digits)

IsLetter(c) == c \in Range(UpperCase) \cup Range(LowerCase)

DigitVal(c) == (CHOOSE i \in DOMAIN Digits : Digits[i] = c) - 1

RECURSIVE DigitsVal(_, _)
DigitsVal(s, acc) ==
    IF s = <<>> THEN acc ELSE DigitsVal(Tail(s), 10 * acc + DigitVal(s[1]))

RECURSIVE Pow10(_)
Pow10(n) == IF n = 0 THEN 1 ELSE 10 * Pow10(n - 1)

AllDigits(s) == \A i \in DOMAIN s : IsDigit(s[i])

\* length of the longest prefix of  s  made of characters satisfying  Chars
RECURSIVE SpanLen(_, _)
SpanLen(s, chars) ==
    IF s # <<>> /\ s[1] \in chars THEN 1 + SpanLen(Tail(s), chars) ELSE 0

Drop(s, n) == SubSeq(s, n + 1, Len(s))

\* a sign, if any, and the rest of a number text
SignOf(t) == IF t # <<>> /\ t[1] = "-" THEN -1 ELSE 1
Unsigned(t) == IF t # <<>> /\ t[1] \in {"+", "-"} THEN Tail(t) ELSE t

\* the result of a conversion that raised ValueError
ValueError == [ok |-> FALSE, num |-> 0, den |-> 1]

\* int(text): optional blanks, optional sign, one or more digits
int(text) ==
    LET body == Unsigned(strip(text))
    IN  IF body # <<>> /\ AllDigits(body)
        THEN [ok |-> TRUE, num |-> SignOf(strip(text)) * DigitsVal(body, 0),
              den |-> 1]
        ELSE ValueError

\* float(text): optional blanks, optional sign, digits with at most one
\* decimal point and at least one digit
float(text) ==
    LET t == strip(text)
        body == Unsigned(t)
        whole == SubSeq(body, 1, SpanLen(body, Range(Digits)))
        rest == Drop(body, Len(whole))
        frac == IF rest # <<>> /\ rest[1] = "." THEN Tail(rest) ELSE <<>>
    IN  IF /\ rest = <<>> \/ rest[1] = "."
           /\ AllDigits(frac)
           /\ Len(whole) + Len(frac) > 0
        THEN [ok |-> TRUE,
              num |-> SignOf(t) * DigitsVal(whole \o frac, 0),
              den |-> Pow10(Len(frac))]
        ELSE ValueError

\* str.split(sep) for a one-character separator
RECURSIVE split(_, _)
split(s, sep) ==
    LET n == SpanLen(s, Range(s) \ {sep})
    IN  IF n = Len(s) THEN <<s>>
        ELSE <<SubSeq(s, 1, n)>> \o split(Drop(s, n + 1), sep)

\* str.split(): the maximal runs of non-blank characters
RECURSIVE split_blank(_)
split_blank(s) ==
    LET t == lstrip(s)
        n == SpanLen(t, Range(t) \ {" ", "\t"})
    IN  IF t = <<>> THEN <<>>
        ELSE <<SubSeq(t, 1, n)>> \o split_blank(Drop(t, n))

\* ' '.join(parts)
RECURSIVE join_blank(_)
join_blank(parts) ==
    IF parts = <<>> THEN <<>>
    ELSE IF Len(parts) = 1 THEN parts[1]
    ELSE parts[1] \o <<" ">> \o join_blank(Tail(parts))

\* what a parser call produced: a number, None, a name pair or an exception
\* greatest common divisor of two naturals, not both 0
RECURSIVE Gcd(_, _)
Gcd(a, b) == IF b = 0 THEN a ELSE Gcd(b, a % b)

\* a number is kept as the fraction num / den in lowest terms
Value(num, den) ==
    LET g == Gcd(IF num < 0 THEN -num ELSE num, den)
    IN  [kind |-> "value", num |-> num \div g, den |-> den \div g,
         first |-> <<>>, last |-> <<>>]
NoValue ==
    [kind |-> "none", num |-> 0, den |-> 1, first |-> <<>>, last |-> <<>>]
Raises ==
    [kind |-> "raise", num |-> 0, den |-> 1, first |-> <<>>, last |-> <<>>]
NamePair(first, last) ==
    [kind |-> "name", num |-> 0, den |-> 1, first |-> first, last |-> last]

\* re.sub(r'[a-zA-Z]+$', '', s)
RECURSIVE sub_trailing_letters(_)
sub_trailing_letters(s) ==
    IF s # <<>> /\ IsLetter(s[Len(s)])
    THEN sub_trailing_letters(SubSeq(s, 1, Len(s) - 1))
    ELSE s

SecondsPerMinute == 60
SecondsPerHour == 3600

\* "try: return float(...) except ValueError: return None" on the outcome  v
\* of float
float_or_none(v) == IF v.ok THEN Value(v.num, v.den) ELSE NoValue

\* float(...) outside any try block: its ValueError leaves the function
float_or_raise(v) == IF v.ok THEN Value(v.num, v.den) ELSE Raises

\* minutes * 60 + seconds  and  hours * 3600 + minutes * 60 + seconds  inside
\* the try block, on the outcomes of int and float
minutes_seconds(m, s) ==
    IF m.ok /\ s.ok
    THEN Value(m.num * SecondsPerMinute * s.den + s.num, s.den)
    ELSE NoValue

hours_minutes_seconds(h, m, s) ==
    IF h.ok /\ m.ok /\ s.ok
    THEN Value((h.num * SecondsPerHour + m.num * SecondsPerMinute) * s.den
                  + s.num, s.den)
    ELSE NoValue

\* the try block of parse_time_to_seconds (lines 121-140) on the parts of
\* time_str.split(':')
time_parts(parts) ==
    IF Len(parts) = 1 THEN float_or_none(float(parts[1]))
    ELSE IF Len(parts) = 2
    THEN minutes_seconds(int(parts[1]), float(parts[2]))
    ELSE IF Len(parts) = 3
    THEN hours_minutes_seconds(int(parts[1]), int(parts[2]), float(parts[3]))
    ELSE NoValue

\* a bug: the trailing letters are left on the text
parse_time_to_seconds_keep_suffix(time_str) ==
    IF time_str = <<>> THEN NoValue
    ELSE time_parts(split(strip(time_str), ":"))

\* BaseParser.parse_time_to_seconds
parse_time_to_seconds(time_str) ==
    IF time_str = <<>> THEN NoValue
    ELSE time_parts(split(sub_trailing_letters(strip(time_str)), ":"))

\* 1 foot = 0.3048 m and 1 inch = 0.0254 m, in ten-thousandths of a metre
FootInTenThousandths == 3048
InchInTenThousandths == 254
TenThousand == 10000

\* re.match(r'([\d.]+)\s*m', s, re.IGNORECASE): the text of group 1, or None
meters_match(s) ==
    LET n == SpanLen(s, Range(Digits) \cup {"."})
        after == lstrip(Drop(s, n))
    IN  IF n >= 1 /\ after # <<>> /\ after[1] \in {"m", "M"}
        THEN SubSeq(s, 1, n)
        ELSE None

\* re.match(r"(\d+)['\-]\s*(\d+(?:\.\d+)?)[\"']?", s): groups 1 and 2, or None
feet_inches_match(s) ==
    LET n1 == SpanLen(s, Range(Digits))
        rest == lstrip(Drop(s, n1 + 1))
        n2 == SpanLen(rest, Range(Digits))
        tail == Drop(rest, n2)
        n3 == IF tail # <<>> /\ tail[1] = "."
              THEN SpanLen(Tail(tail), Range(Digits)) ELSE 0
    IN  IF n1 >= 1 /\ Len(s) > n1 /\ s[n1 + 1] \in {"'", "-"} /\ n2 >= 1
        THEN <<SubSeq(s, 1, n1),
               SubSeq(rest, 1, IF n3 >= 1 THEN n2 + 1 + n3 ELSE n2)>>
        ELSE None

\* feet * 0.3048 + inches * 0.0254  on the outcomes of int and float
feet_inches(feet, inches) ==
    Value(feet.num * FootInTenThousandths * inches.den
              + inches.num * InchInTenThousandths,
          TenThousand * inches.den)

\* a bug: the inches are added as hundredths of a foot
feet_inches_decimal_feet(feet, inches) ==
    Value(feet.num * FootInTenThousandths * inches.den * 100
              + inches.num * FootInTenThousandths,
          TenThousand * inches.den * 100)

\* the three branches of parse_distance_to_meters (lines 157-177) on the
\* stripped text  s  and on what the two patterns matched in it
distance_branches_decimal_feet(s, mm, fi) ==
    IF mm # None THEN float_or_raise(float(mm))
    ELSE IF fi # None THEN feet_inches_decimal_feet(int(fi[1]), float(fi[2]))
    ELSE float_or_none(float(s))

distance_branches(s, mm, fi) ==
    IF mm # None THEN float_or_raise(float(mm))
    ELSE IF fi # None THEN feet_inches(int(fi[1]), float(fi[2]))
    ELSE float_or_none(float(s))

\* a bug: the inches are added as hundredths of a foot
parse_distance_to_meters_decimal_feet(distance_str) ==
    IF distance_str = <<>> THEN NoValue
    ELSE distance_branches_decimal_feet(strip(distance_str),
                                        meters_match(strip(distance_str)),
                                        feet_inches_match(strip(distance_str)))

\* BaseParser.parse_distance_to_meters; the float() of the metres branch is
\* outside any try block, so its ValueError leaves the function
parse_distance_to_meters(distance_str) ==
    IF distance_str = <<>> THEN NoValue
    ELSE distance_branches(strip(distance_str),
                           meters_match(strip(distance_str)),
                           feet_inches_match(strip(distance_str)))

\* re.sub(r'^[wW]:', '', s)
sub_wind_prefix(s) ==
    IF Len(s) >= 2 /\ s[1] \in {"w", "W"} /\ s[2] = ":" THEN Drop(s, 2) ELSE s

\* re.sub(r'm/s$', '', s, flags=re.IGNORECASE)
sub_wind_unit(s) ==
    IF EndsWith(lower(s), Str("m/s")) THEN SubSeq(s, 1, Len(s) - 3) ELSE s

\* BaseParser.parse_wind
parse_wind(wind_str) ==
    IF wind_str = <<>> THEN NoValue
    ELSE float_or_none(float(sub_wind_unit(sub_wind_prefix(strip(wind_str)))))

\* BaseParser.split_name
split_name(full_name) ==
    LET s == strip(full_name)
        comma == SpanLen(s, Range(s) \ {","})
        parts == split_blank(s)
    IN  IF comma < Len(s)
        THEN NamePair(strip(Drop(s, comma + 1)), strip(SubSeq(s, 1, comma)))
        ELSE IF Len(parts) >= 2
        THEN NamePair(parts[1], join_blank(Tail(parts)))
        ELSE IF Len(parts) = 1
        THEN NamePair(parts[1], <<>>)
        ELSE NamePair(<<>>, <<>>)

\* the texts the parsers are called with
TimeChars == {"1", ".", ":", "a", " ", "-"}
DistanceChars == {"1", ".", "m", "-", "'", " "}
WindChars == {"1", ".", "-", "+", "w", ":"}
PersonChars == {"a", "b", ",", " "}

TimeExamples ==
    {Str("11.45"), Str("1:23.45"), Str("1:02:34.56"), Str("11.45a"),
     Str("1:2:3:4"), Str("DNF"), Str("1:02:34.56h")}
DistanceExamples ==
    {Str("45' 6.5\""), Str("45-06.50"), Str("13.87m"), Str("13.87"),
     Str("13.87 M"), Str("1.2.3m")}
WindExamples ==
    {Str("+1.2"), Str("-0.5"), Str("w:1.2"), Str("1.2m/s"), Str("W:-0.5 M/S"),
     Str("NWI")}
NameExamples == {Str("Smith, John"), Str("John Smith"), Str("Mary Ann Lee")}

TimeTexts == Texts(TimeChars, 0, MaxTokenLen) \cup TimeExamples
DistanceTexts == Texts(DistanceChars, 0, MaxTokenLen) \cup DistanceExamples
WindTexts == Texts(WindChars, 0, MaxTokenLen) \cup WindExamples
NameTexts == Texts(PersonChars, 0, MaxTokenLen) \cup NameExamples

\* no parser call is in progress
ParseUnused ==
    /\ parse_pc = "idle"
    /\ parse_fn = "none"
    /\ parse_in = <<>>
    /\ parse_out = NoValue
    /\ fmt_seconds = 0

\* an extractor converts a time cell
ParseTime ==
    /\ parse_pc = "idle"
    /\ \E text \in TimeTexts :
          /\ parse_in' = text
          /\ parse_out' = parse_time_to_seconds(text)
    /\ parse_fn' = "parse_time_to_seconds"
    /\ parse_pc' = "returned"
    /\ UNCHANGED <<fmt_seconds, except_parse>>

\* an extractor converts a distance cell
ParseDistance ==
    /\ parse_pc = "idle"
    /\ \E text \in DistanceTexts :
          /\ parse_in' = text
          /\ parse_out' = parse_distance_to_meters(text)
    /\ parse_fn' = "parse_distance_to_meters"
    /\ parse_pc' = "returned"
    /\ UNCHANGED <<fmt_seconds, except_parse>>

\* an extractor converts a wind cell
ParseWind ==
    /\ parse_pc = "idle"
    /\ \E text \in WindTexts :
          /\ parse_in' = text
          /\ parse_out' = parse_wind(text)
    /\ parse_fn' = "parse_wind"
    /\ parse_pc' = "returned"
    /\ UNCHANGED <<fmt_seconds, except_parse>>

\* an extractor splits an athlete name
SplitName ==
    /\ parse_pc = "idle"
    /\ \E text \in NameTexts :
          /\ parse_in' = text
          /\ parse_out' = split_name(text)
    /\ parse_fn' = "split_name"
    /\ parse_pc' = "returned"
    /\ UNCHANGED <<fmt_seconds, except_parse>>

\* the extractor has used the value (or the exception has propagated)
ParseDone ==
    /\ parse_pc = "returned"
    /\ parse_pc' = "idle"
    /\ parse_fn' = "none"
    /\ parse_in' = <<>>
    /\ parse_out' = NoValue
    /\ fmt_seconds' = 0
    /\ UNCHANGED except_parse

----------------------------------------------------------------------------
(* Display of a time (src/webapp/app.py), and the way back through the     *)
(* time parser.  A time is a whole number of hundredths of a second.       *)

\* str(n) of a natural number
RECURSIVE IntText(_)
IntText(n) ==
    IF n < 10 THEN <<Digits[n + 1]>>
    ELSE IntText(n \div 10) \o <<Digits[(n % 10) + 1]>>

\* f"{x:.2f}" of x = h / 100
Fixed2(h) ==
    IntText(h \div 100) \o <<".", Digits[((h \div 10) % 10) + 1], Digits[(h % 10) + 1]>>

\* the zero padding of a format width
RECURSIVE ZeroPad(_, _)
ZeroPad(s, width) == IF Len(s) >= width THEN s ELSE ZeroPad(<<"0">> \o s, width)

HundredthsPerMinute == 6000
SecondsFieldWidth == 5

\* a bug: the seconds are shown with one decimal place
format_time_tenths(h) ==
    LET f == IF h >= HundredthsPerMinute
             THEN IntText(h \div HundredthsPerMinute) \o <<":">>
                     \o ZeroPad(Fixed2(h % HundredthsPerMinute), SecondsFieldWidth)
             ELSE Fixed2(h)
    IN  SubSeq(f, 1, Len(f) - 1)

\* format_time(seconds) for seconds = h / 100
format_time(h) ==
    IF h >= HundredthsPerMinute
    THEN IntText(h \div HundredthsPerMinute) \o <<":">>
            \o ZeroPad(Fixed2(h % HundredthsPerMinute), SecondsFieldWidth)
    ELSE Fixed2(h)

\* a stored time is formatted for display
FormatTime ==
    /\ parse_pc = "idle"
    /\ \E h \in 0..MaxHundredths :
          /\ fmt_seconds' = h
          /\ parse_in' = format_time(h)
    /\ parse_fn' = "format_time"
    /\ parse_pc' = "formatted"
    /\ UNCHANGED <<parse_out, except_parse>>

\* the displayed text is read back by the time parser
ParseFormatted ==
    /\ parse_pc = "formatted"
    /\ parse_out' = parse_time_to_seconds(parse_in)
    /\ parse_fn' = "parse_time_to_seconds"
    /\ parse_pc' = "returned"
    /\ UNCHANGED <<parse_in, fmt_seconds, except_parse>>

----------------------------------------------------------------------------
(* Regular expressions of the extractors (Python re)                       *)
(*                                                                         *)
(* A pattern is a sequence of items; an item is a character class repeated *)
(* min..max times, greedily or lazily, and may belong to a capture group.  *)
(* Matching backtracks in the order of the re module: a greedy item gives  *)
(* up characters one by one, a lazy item takes them one by one.            *)

\* an item: the characters in  cs  (or those not in  cs  when  neg), repeated
Item(cs, neg, min, max, lazy, grp) ==
    [cs |-> cs, neg |-> neg, min |-> min, max |-> max, lazy |-> lazy, grp |-> grp]

\* upper limit of an unbounded repetition: no text is longer
Unbounded == 1000

Letters == Range(UpperCase) \cup Range(LowerCase)
Blanks == {" ", "\t", "\n"}

\* one literal character;  x+  x*  x?  of a class; the lazy group (.+?)
Lit(c) == Item({c}, FALSE, 1, 1, FALSE, 0)
Plus(cs, grp) == Item(cs, FALSE, 1, Unbounded, FALSE, grp)
Star(cs, grp) == Item(cs, FALSE, 0, Unbounded, FALSE, grp)
Opt(cs, grp) == Item(cs, FALSE, 0, 1, FALSE, grp)
One(cs, grp) == Item(cs, FALSE, 1, 1, FALSE, grp)
LazyAny(grp) == Item({"\n"}, TRUE, 1, Unbounded, TRUE, grp)

\* a literal word
Word(w) == [i \in 1..Len(w) |-> Lit(w[i])]

InClass(it, c) == (c \in it.cs) # it.neg

\* how many characters from  pos  on are in the class of  it, at most  it.max
RECURSIVE ClassRun(_, _, _, _)
ClassRun(it, text, pos, n) ==
    IF n < it.max /\ pos + n <= Len(text) /\ InClass(it, text[pos + n])
    THEN ClassRun(it, text, pos, n + 1)
    ELSE n

\* no match
Fail == <<-1>>

\* the anchor $ : "none" (absent), "end" (end of the text, or before its final
\* newline) or "line" (re.MULTILINE: also before any newline)
AtAnchor(text, pos, anchored) ==
    \/ anchored = "none"
    \/ pos = Len(text) + 1
    \/ pos = Len(text) /\ text[pos] = "\n"
    \/ anchored = "line" /\ pos <= Len(text) /\ text[pos] = "\n"

\* the items  k..  of  pat  matched at  pos : the end positions of the items,
\* or Fail
RECURSIVE MatchFrom(_, _, _, _, _)
RECURSIVE TryCount(_, _, _, _, _, _, _)
MatchFrom(pat, text, k, pos, anchored) ==
    IF k > Len(pat)
    THEN IF AtAnchor(text, pos, anchored) THEN <<>> ELSE Fail
    ELSE LET run == ClassRun(pat[k], text, pos, 0)
         IN  IF run < pat[k].min THEN Fail
             ELSE TryCount(pat, text, k, pos, anchored,
                           IF pat[k].lazy THEN pat[k].min ELSE run, run)

TryCount(pat, text, k, pos, anchored, n, run) ==
    IF n < pat[k].min \/ n > run THEN Fail
    ELSE LET rest == MatchFrom(pat, text, k + 1, pos + n, anchored)
         IN  IF rest # Fail THEN <<pos + n>> \o rest
             ELSE TryCount(pat, text, k, pos, anchored,
                           IF pat[k].lazy THEN n + 1 ELSE n - 1, run)

\* a successful match: where it starts and where each item ends
Found(start, ends) == [start |-> start, ends |-> ends]
NoMatch == [start |-> 0, ends |-> Fail]

\* the pattern matched at the position  start
re_match_at(pat, text, anchored, start) ==
    LET ends == MatchFrom(pat, text, 1, start, anchored)
    IN  IF ends = Fail THEN NoMatch ELSE Found(start, ends)

\* re.match(pat, text): at the start of the text
re_match(pat, text, anchored) == re_match_at(pat, text, anchored, 1)

\* re.search(pat, text): at the leftmost position where the pattern matches
RECURSIVE re_search_from(_, _, _, _)
re_search_from(pat, text, anchored, start) ==
    IF start > Len(text) + 1 THEN NoMatch
    ELSE LET ends == MatchFrom(pat, text, 1, start, anchored)
         IN  IF ends # Fail THEN Found(start, ends)
             ELSE re_search_from(pat, text, anchored, start + 1)

re_search(pat, text, anchored) == re_search_from(pat, text, anchored, 1)

\* the first of the alternatives  pats  (p1|p2|...) that matches at  start
RECURSIVE re_match_alt(_, _, _, _, _)
re_match_alt(pats, text, anchored, start, a) ==
    IF a > Len(pats) THEN [alt |-> 0, m |-> NoMatch]
    ELSE LET m == re_match_at(pats[a], text, anchored, start)
         IN  IF m # NoMatch THEN [alt |-> a, m |-> m]
             ELSE re_match_alt(pats, text, anchored, start, a + 1)

\* re.search of alternatives: leftmost position, then first alternative
RECURSIVE re_search_alt(_, _, _, _)
re_search_alt(pats, text, anchored, start) ==
    IF start > Len(text) + 1 THEN [alt |-> 0, m |-> NoMatch]
    ELSE LET r == re_match_alt(pats, text, anchored, start, 1)
         IN  IF r.alt # 0 THEN r
             ELSE re_search_alt(pats, text, anchored, start + 1)

\* where a match ends
MatchEnd(m) == IF m.ends = <<>> THEN m.start ELSE m.ends[Len(m.ends)]

\* group  g  of a match  m  of pattern  pat : the text its items consumed
Group(pat, text, m, g) ==
    LET ks == {k \in DOMAIN pat : pat[k].grp = g}
        first == CHOOSE k \in ks : \A j \in ks : k <= j
        last == CHOOSE k \in ks : \A j \in ks : k >= j
        from == IF first = 1 THEN m.start ELSE m.ends[first - 1]
    IN  SubSeq(text, from, m.ends[last] - 1)

----------------------------------------------------------------------------
(* Timing-system text extractor (src/scraper/parsers/hytek_text.py)        *)
(*                                                                         *)
(* A document is its text, newlines included.  An absent integer field     *)
(* (None) is -1, an absent mark is NoValue, an absent relay team is None.  *)

Absent == -1

\* ParsedResult(...), the fields the extractors fill
ParsedResult(event, place, name, school, display, mark, gender, year, team) ==
    [event_name |-> event, place |-> place, athlete_name |-> name,
     school |-> school, mark_display |-> display, mark |-> mark,
     wind |-> NoValue, gender |-> gender, year |-> year, relay_team |-> team]

DigitSet == Range(Digits)

\* r'^Event \d+\s+(Girls|Boys)\s+(.+?)$' with re.MULTILINE, one alternative
\* per gender word
EventWords == <<Str("Girls"), Str("Boys")>>
event_pattern ==
    [a \in DOMAIN EventWords |->
        Word(Str("Event ")) \o <<Plus(DigitSet, 0), Plus(Blanks, 0)>>
            \o Word(EventWords[a]) \o <<Plus(Blanks, 0), LazyAny(2)>>]

\* the first position at or after  pos  where a line starts
RECURSIVE LineStart(_, _)
LineStart(content, pos) ==
    IF pos <= 1 \/ pos > Len(content) + 1 \/ content[pos - 1] = "\n" THEN pos
    ELSE LineStart(content, pos + 1)

\* event_pattern.finditer(content): start, end, gender and name of each header
RECURSIVE event_headers(_, _)
event_headers(content, pos) ==
    IF pos > Len(content) THEN <<>>
    ELSE LET r == re_match_alt(event_pattern, content, "line", pos, 1)
         IN  IF r.alt = 0 THEN event_headers(content, LineStart(content, pos + 1))
             ELSE <<[start |-> pos,
                     gender |-> EventWords[r.alt],
                     name |-> strip(Group(event_pattern[r.alt], content, r.m, 2))]>>
                  \o event_headers(content, LineStart(content, Max(MatchEnd(r.m), pos + 1)))

\* the individual result row (lines 98-100)
result_pattern ==
    <<Plus(Blanks, 0), Plus(DigitSet, 1), Plus(Blanks, 0), Lit("#"),
      Star(Blanks, 0), Plus(DigitSet, 2), Plus(Blanks, 0), LazyAny(3), Lit(","),
      Plus(Blanks, 0), LazyAny(4), Plus(Blanks, 0), Plus(DigitSet, 5),
      Plus(Blanks, 0), Item(Letters \cup {" "}, FALSE, 1, Unbounded, TRUE, 6),
      Plus(Blanks, 0), Opt(Letters, 7), Plus(DigitSet \cup {":", ".", "-"}, 7),
      Star(Letters, 7), Plus(Blanks, 0)>>

\* re.match(r'^[A-Z]{2,}$', mark_str)
IsLetterCode(mark_str) ==
    re_match(<<Item(Range(UpperCase), FALSE, 2, Unbounded, FALSE, 0)>>,
             mark_str, "end") # NoMatch

\* re.sub(r'[a-zA-Z]', '', s)
sub_letters(s) == SelectSeq(s, LAMBDA c : ~IsLetter(c))

\* the mark text without its non-scoring x and its one-letter prefix
mark_without_prefix(mark_str) ==
    LET unx == IF mark_str # <<>> /\ mark_str[1] = "x" THEN Tail(mark_str)
               ELSE mark_str
    IN  IF unx # <<>> /\ IsLetter(unx[1]) THEN Tail(unx) ELSE unx

InchesPerFoot == 12

\* feet * 12 + inches, in metres, inside the try block (lines 141-147), on
\* the outcomes of int and float
feet_inches_or_none(feet, inches) ==
    IF feet.ok /\ inches.ok
    THEN Value((feet.num * InchesPerFoot * inches.den + inches.num)
                  * InchInTenThousandths,
               TenThousand * inches.den)
    ELSE NoValue

\* the three branches of the conversion on  mark_clean
individual_mark_clean(mark_clean) ==
    IF ":" \in Range(mark_clean)
    THEN minutes_seconds(
             int(split(sub_trailing_letters(mark_clean), ":")[1]),
             float(split(sub_trailing_letters(mark_clean), ":")[2]))
    ELSE IF "-" \in Range(mark_clean) /\ mark_clean[1] # "-"
    THEN feet_inches_or_none(
             int(split(sub_trailing_letters(mark_clean), "-")[1]),
             float(split(sub_trailing_letters(mark_clean), "-")[2]))
    ELSE float_or_none(float(sub_letters(mark_clean)))

\* the conversion of lines 128-157: a number, or NoValue where the row is
\* skipped (continue)
individual_mark(mark_str) == individual_mark_clean(mark_without_prefix(mark_str))

\* the end of the loop body (lines 123-170) for a line that  m  matched, with
\* its mark text and what the conversion gave
individual_result(line, gender, ev_name, m, mark_str, mark) ==
    LET g(n) == Group(result_pattern, line, m, n)
    IN  IF IsLetterCode(mark_str) THEN <<>>
        ELSE IF mark = NoValue THEN <<>>
        ELSE <<ParsedResult(gender \o <<" ">> \o ev_name,
                            int(g(1)).num,
                            strip(g(4)) \o <<" ">> \o strip(g(3)),
                            strip(g(6)), mark_str, mark,
                            IF gender = Str("Boys") THEN "M" ELSE "F",
                            int(g(5)).num, None)>>

\* the loop body for the outcome  m  of result_pattern.match(line)
individual_match(line, gender, ev_name, m) ==
    IF m = NoMatch THEN <<>>
    ELSE individual_result(
             line, gender, ev_name, m,
             strip(Group(result_pattern, line, m, 7)),
             individual_mark(strip(Group(result_pattern, line, m, 7))))

\* one pass of the loop of _parse_individual_event: the results of one line
individual_row(line, gender, ev_name) ==
    individual_match(line, gender, ev_name,
                     re_match(result_pattern, line, "none"))

\* the results of the lines  i..  in order
RECURSIVE individual_rows(_, _, _, _)
individual_rows(lines, i, gender, ev_name) ==
    IF i > Len(lines) THEN <<>>
    ELSE individual_row(lines[i], gender, ev_name)
            \o individual_rows(lines, i + 1, gender, ev_name)

\* HyTekTextParser._parse_individual_event
parse_individual_event(event_text, gender, ev_name) ==
    individual_rows(split(event_text, "\n"), 1, gender, ev_name)

\* the relay team header (lines 187-189) and the relay member (lines 193-195)
team_pattern ==
    <<Plus(Blanks, 0), Plus(DigitSet, 1), Plus(Blanks, 0), LazyAny(2),
      Plus(Blanks, 0), Lit("'"), One(Range(UpperCase), 3), Lit("'"),
      Plus(Blanks, 0), Plus(DigitSet \cup {":", "."}, 4), Star(Letters, 4),
      Plus(Blanks, 0), Star(DigitSet, 5)>>

member_pattern ==
    <<Plus(DigitSet, 1), Lit(")"), Plus(Blanks, 0), Lit("#"), Plus(DigitSet, 2),
      Plus(Blanks, 0), LazyAny(3), Lit(","), Plus(Blanks, 0), LazyAny(4),
      Plus(Blanks, 0), Plus(DigitSet, 5)>>

\* int(parts[0]) * 60 + float(parts[1])  outside any try block (line 236)
minutes_seconds_or_raise(m, s) ==
    IF m.ok /\ s.ok
    THEN Value(m.num * SecondsPerMinute * s.den + s.num, s.den)
    ELSE Raises

\* the conversion of lines 233-243: a number, NoValue (None) or Raises (the
\* int() and float() of the colon branch are outside any try block)
team_mark(mark_str) ==
    IF ":" \in Range(sub_letters(mark_str))
    THEN minutes_seconds_or_raise(
             int(split(sub_letters(mark_str), ":")[1]),
             float(split(sub_letters(mark_str), ":")[2]))
    ELSE float_or_none(float(sub_letters(mark_str)))

\* the local variables of _parse_relay_event before the first line
RelayStart ==
    [school |-> <<>>, team |-> None, mark |-> NoValue, mark_str |-> <<>>,
     place |-> Absent, members |-> <<>>, results |-> <<>>, raised |-> FALSE]

\* "if current_school and current_mark and team_members": one result per
\* collected member
team_results(st, gender, ev_name) ==
    IF st.school # <<>> /\ st.mark.kind = "value" /\ st.mark.num # 0
    THEN [i \in DOMAIN st.members |->
             ParsedResult(gender \o <<" ">> \o ev_name, st.place,
                          st.members[i].name, st.school, st.mark_str, st.mark,
                          IF gender = Str("Boys") THEN "M" ELSE "F",
                          st.members[i].year, st.team)]
    ELSE <<>>

\* the team header branch (lines 209-245) for the match  tm  and what the
\* conversion of its mark gave
relay_team(st, line, gender, ev_name, tm, mark) ==
    LET tg(n) == Group(team_pattern, line, tm, n)
    IN  IF mark = Raises
        THEN [st EXCEPT !.raised = TRUE]
        ELSE [school |-> strip(tg(2)), team |-> tg(3), mark |-> mark,
              mark_str |-> strip(tg(4)), place |-> int(tg(1)).num,
              members |-> <<>>,
              results |-> st.results \o team_results(st, gender, ev_name),
              raised |-> FALSE]

\* the member branch (lines 248-256) for the outcome  mm  of
\* member_pattern.search(line)
relay_member(st, line, mm) ==
    LET mg(n) == Group(member_pattern, line, mm, n)
    IN  IF mm # NoMatch /\ st.school # <<>>
        THEN [st EXCEPT !.members =
                 Append(@, [name |-> strip(mg(4)) \o <<" ">> \o strip(mg(3)),
                            year |-> int(mg(5)).num])]
        ELSE st

\* the loop body for the outcome  tm  of team_pattern.match(line)
relay_pass(st, line, gender, ev_name, tm) ==
    IF st.raised THEN st
    ELSE IF tm # NoMatch
    THEN relay_team(st, line, gender, ev_name, tm,
                    team_mark(strip(Group(team_pattern, line, tm, 4))))
    ELSE relay_member(st, line, re_search(member_pattern, line, "none"))

\* one pass of the loop of _parse_relay_event (lines 205-256)
relay_line(st, line, gender, ev_name) ==
    relay_pass(st, line, gender, ev_name, re_match(team_pattern, line, "none"))

RECURSIVE relay_lines(_, _, _, _, _)
relay_lines(st, lines, i, gender, ev_name) ==
    IF i > Len(lines) THEN st
    ELSE relay_lines(relay_line(st, lines[i], gender, ev_name), lines, i + 1,
                     gender, ev_name)

\* what a call produced: the results, or an exception
Results(rs) == [kind |-> "results", results |-> rs]
Raised == [kind |-> "raise", results |-> <<>>]

\* after the loop (lines 258-273): the last team is flushed
relay_flush(st, gender, ev_name) ==
    IF st.raised THEN Raised
    ELSE Results(st.results \o team_results(st, gender, ev_name))

\* HyTekTextParser._parse_relay_event
parse_relay_event(event_text, gender, ev_name) ==
    relay_flush(relay_lines(RelayStart, split(event_text, "\n"), 1, gender,
                            ev_name),
                gender, ev_name)

\* list.extend: the results of one part of a file followed by the results of
\* the parts after it; an exception in either leaves the call
extended(here, rest) ==
    IF here.kind = "raise" \/ rest.kind = "raise" THEN Raised
    ELSE Results(here.results \o rest.results)

\* the loop of parse_all_events over the headers  i..
RECURSIVE events_from(_, _, _)
events_from(content, headers, i) ==
    IF i > Len(headers) THEN Results(<<>>)
    ELSE LET event_end == IF i < Len(headers) THEN headers[i + 1].start - 1
                          ELSE Len(content)
             event_text == SubSeq(content, headers[i].start, event_end)
         IN  extended(IF contains(lower(headers[i].name), Str("relay"))
                      THEN parse_relay_event(event_text, headers[i].gender,
                                             headers[i].name)
                      ELSE Results(parse_individual_event(event_text,
                                       headers[i].gender, headers[i].name)),
                      events_from(content, headers, i + 1))

\* HyTekTextParser.parse_all_events
parse_all_events(content) == events_from(content, event_headers(content, 1), 1)

\* an event_config: the keys the extractors read
EventConfig(has_canonical, canonical, gender, header) ==
    [has_canonical |-> has_canonical, canonical_event |-> canonical,
     gender |-> gender, event_header |-> header]

\* the filter of parse (lines 44-52) on what parse_all_events returned
hytek_filter(all_results, event_config) ==
    IF all_results.kind = "raise" THEN Raised
    ELSE IF event_config.has_canonical
    THEN Results(SelectSeq(all_results.results,
                   LAMBDA r : r.event_name =
                                 event_config.gender \o <<" ">>
                                    \o event_config.canonical_event))
    ELSE all_results

\* HyTekTextParser.parse, from the content of the file on
hytek_parse(content, event_config) ==
    hytek_filter(parse_all_events(content), event_config)

----------------------------------------------------------------------------
(* Multi-event page extractor (src/scraper/parsers/milesplit_multi.py)     *)

\* the least element of a non-empty set of integers
Least(S) == CHOOSE i \in S : \A j \in S : i <= j

\* str.find(sub) counted from 1: the first index of  sub, or 0
find(text, sub) ==
    LET hits == {i \in 1..(Len(text) - Len(sub) + 1) :
                   SubSeq(text, i, i + Len(sub) - 1) = sub}
    IN  IF hits = {} THEN 0 ELSE Least(hits)

\* the gender words and the event words of next_event_pattern (line 45),
\* lowercase because the pattern is compiled with re.IGNORECASE
SectionGenders ==
    <<Word(Str("boys")), Word(Str("girls")),
      Word(Str("men")) \o <<Opt({"'"}, 0), Opt({"s"}, 0)>>,
      Word(Str("women")) \o <<Opt({"'"}, 0), Opt({"s"}, 0)>>>>
SectionEvents ==
    <<Str("meter"), Str("mile"), Str("shot"), Str("discus"), Str("javelin"),
      Str("high"), Str("long"), Str("triple"), Str("pole"), Str("hurdle"),
      Str("relay"), Str("steeplechase"), Str("medley")>>

\* r'\n\s*((?:Boys|...)\s+\d*\s*(?:Meter|...))', one alternative per pair of
\* gender word and event word
next_event_pattern ==
    [a \in 1..(Len(SectionGenders) * Len(SectionEvents)) |->
        <<Lit("\n"), Star(Blanks, 0)>>
            \o SectionGenders[((a - 1) \div Len(SectionEvents)) + 1]
            \o <<Plus(Blanks, 0), Star(DigitSet, 0), Star(Blanks, 0)>>
            \o Word(SectionEvents[((a - 1) % Len(SectionEvents)) + 1])]

\* pattern.search(text).start() for a pattern that begins with a newline:
\* the first newline at which an alternative matches, or 0
search_at_newlines(pats, text) ==
    LET hits == {pos \in DOMAIN text :
                   /\ text[pos] = "\n"
                   /\ re_match_alt(pats, text, "none", pos, 1).alt # 0}
    IN  IF hits = {} THEN 0 ELSE Least(hits)

\* a bug: the header is looked for in the page as it is written
multi_find_event_section_case_sensitive(content, event_header) ==
    LET start_pos == find(content, event_header)
        match_end == start_pos + Len(event_header)
        remaining == SubSeq(content, match_end, Len(content))
        next_start == search_at_newlines(next_event_pattern, lower(remaining))
    IN  IF event_header = <<>> THEN content
        ELSE IF start_pos = 0 THEN <<>>
        ELSE IF next_start # 0
        THEN SubSeq(content, start_pos, match_end + next_start - 2)
        ELSE SubSeq(content, start_pos, Len(content))

\* MilesplitMultiParser.find_event_section
multi_find_event_section(content, event_header) ==
    LET start_pos == find(lower(content), lower(event_header))
        match_end == start_pos + Len(event_header)
        remaining == SubSeq(content, match_end, Len(content))
        next_start == search_at_newlines(next_event_pattern, lower(remaining))
    IN  IF event_header = <<>> THEN content
        ELSE IF start_pos = 0 THEN <<>>
        ELSE IF next_start # 0
        THEN SubSeq(content, start_pos, match_end + next_start - 2)
        ELSE SubSeq(content, start_pos, Len(content))

FieldEvents ==
    {Str("shot put"), Str("discus"), Str("javelin"), Str("high jump"),
     Str("pole vault"), Str("long jump"), Str("triple jump"),
     Str("decathlon"), Str("heptathlon")}

\* _is_timed_event
is_timed_event(ev_name) ==
    ~\E fe \in FieldEvents : contains(lower(ev_name), fe)

\* the pieces of  text  between the occurrences of the literal  sep
RECURSIVE split_on(_, _)
split_on(text, sep) ==
    LET i == find(text, sep)
    IN  IF i = 0 THEN <<text>>
        ELSE <<SubSeq(text, 1, i - 1)>>
                \o split_on(SubSeq(text, i + Len(sep), Len(text)), sep)

\* text.replace(old, new)
RECURSIVE replace(_, _, _)
replace(text, old, new) ==
    LET i == find(text, old)
    IN  IF i = 0 THEN text
        ELSE SubSeq(text, 1, i - 1) \o new
                \o replace(SubSeq(text, i + Len(old), Len(text)), old, new)

\* find_all(tag) on plain markup: the content of every element opened by
\* open,  up to its closing tag (or to the end when the tag is not closed)
elements(text, open, close) ==
    LET opened == Tail(split_on(text, open))
    IN  [i \in DOMAIN opened |-> split_on(opened[i], close)[1]]

\* row.find_all(['td', 'th']) with get_text(strip=True) of every cell
row_cells(row) ==
    LET cells == elements(replace(replace(row, Str("<th>"), Str("<td>")),
                                  Str("</th>"), Str("</td>")),
                          Str("<td>"), Str("</td>"))
    IN  [i \in DOMAIN cells |-> strip(cells[i])]

\* table.find_all('tr')
table_rows(table) ==
    LET rows == elements(table, Str("<tr>"), Str("</tr>"))
    IN  [i \in DOMAIN rows |-> row_cells(rows[i])]

\* BeautifulSoup(section, 'html.parser').find_all('table'): every table as
\* the rows of it, every row as the texts of its cells
soup_tables(section) ==
    LET tables == elements(section, Str("<table>"), Str("</table>"))
    IN  [i \in DOMAIN tables |-> table_rows(tables[i])]

\* ParsedResult() with every field at its default
EmptyResult ==
    ParsedResult(<<>>, Absent, <<>>, <<>>, <<>>, NoValue, "None", Absent, None)

\* str.isdigit
isdigit(text) == text # <<>> /\ AllDigits(text)

\* r'^[A-Za-z\s,.\'-]+$'
name_cell_pattern == <<Plus(Letters \cup Blanks \cup {",", ".", "'", "-"}, 0)>>
\* r'^\d+[:.]\d+'  and  r"^\d+['\-]\d+"
mark_cell_patterns ==
    <<<<Plus(DigitSet, 0), One({":", "."}, 0), Plus(DigitSet, 0)>>,
      <<Plus(DigitSet, 0), One({"'", "-"}, 0), Plus(DigitSet, 0)>>>>
\* r'^[+-]?\d+\.\d+$'
wind_cell_pattern ==
    <<Opt({"+", "-"}, 0), Plus(DigitSet, 0), Lit("."), Plus(DigitSet, 0)>>

\* the conversion of a mark: seconds for a timed event, metres otherwise
mark_of(text, is_timed) ==
    IF is_timed THEN parse_time_to_seconds(text)
    ELSE parse_distance_to_meters(text)

\* result.mark_display = text  and  result.mark = ... , where the conversion
\* of the text gave  mark , or raised
with_mark(st, text, mark) ==
    IF mark = Raises THEN [st EXCEPT !.raised = TRUE]
    ELSE [st EXCEPT !.result.mark_display = text, !.result.mark = mark]

\* one pass of the loop of _parse_table_row (lines 119-145) over cell  i
table_cell(st, i, text, is_timed) ==
    IF st.raised THEN st
    ELSE IF i = 1 /\ isdigit(text)
    THEN [st EXCEPT !.result.place = int(text).num]
    ELSE IF re_match(name_cell_pattern, text, "end") # NoMatch /\ Len(text) > 2
    THEN IF st.result.athlete_name = <<>>
         THEN [st EXCEPT !.result.athlete_name = text]
         ELSE IF st.result.school = <<>>
         THEN [st EXCEPT !.result.school = text]
         ELSE st
    ELSE IF re_match_alt(mark_cell_patterns, text, "none", 1, 1).alt # 0
    THEN IF st.result.mark_display = <<>>
         THEN with_mark(st, text, mark_of(text, is_timed))
         ELSE st
    ELSE IF /\ re_match(wind_cell_pattern, text, "end") # NoMatch
            /\ st.result.mark_display # <<>>
    THEN [st EXCEPT !.result.wind = parse_wind(text)]
    ELSE st

RECURSIVE table_cells(_, _, _, _)
table_cells(st, cells, i, is_timed) ==
    IF i > Len(cells) THEN st
    ELSE table_cells(table_cell(st, i, cells[i], is_timed), cells, i + 1,
                     is_timed)

\* MilesplitMultiParser._parse_table_row: the result, or an exception
parse_table_row(cells, is_timed) ==
    table_cells([result |-> EmptyResult, raised |-> FALSE], cells, 1, is_timed)

\* a bug: a row is kept whether or not it has a name
kept_nameless(result) == TRUE

\* the test  result and result.athlete_name  under which a row is kept
kept(result) == result.athlete_name # <<>>

\* the rows of all tables, one after the other
RECURSIVE flatten(_)
flatten(seqs) == IF seqs = <<>> THEN <<>> ELSE seqs[1] \o flatten(Tail(seqs))

\* "if result and result.athlete_name: results.append(result)" for the
\* outcome  row  of one row or line, followed by the results of the rows
\* after it; an exception in either leaves the call
appended(row, rest) ==
    IF row.raised \/ rest.kind = "raise" THEN Raised
    ELSE IF kept(row.result) THEN Results(<<row.result>> \o rest.results)
    ELSE rest

\* the loop of _parse_html_table over the rows  i..
RECURSIVE table_results(_, _, _)
table_results(rows, i, is_timed) ==
    IF i > Len(rows) THEN Results(<<>>)
    ELSE IF Len(rows[i]) < 3 THEN table_results(rows, i + 1, is_timed)
    ELSE appended(parse_table_row(rows[i], is_timed),
                  table_results(rows, i + 1, is_timed))

\* MilesplitMultiParser._parse_html_table
parse_html_table(section, is_timed) ==
    table_results(flatten(soup_tables(section)), 1, is_timed)

\* r'^(\d+)[.\s]'
place_pattern == <<Plus(DigitSet, 1), One(Blanks \cup {"."}, 0)>>
\* r'(\d{1,2}:\d{2}\.\d+|\d+\.\d+)' , the first group of the time pattern
time_patterns ==
    <<<<Item(DigitSet, FALSE, 1, 2, FALSE, 1), One({":"}, 1),
        Item(DigitSet, FALSE, 2, 2, FALSE, 1), One({"."}, 1),
        Plus(DigitSet, 1)>>,
      <<Plus(DigitSet, 1), One({"."}, 1), Plus(DigitSet, 1)>>>>
\* r'([+-]?\d+\.\d+)' , its optional second group
wind_pattern ==
    <<Opt({"+", "-"}, 2), Plus(DigitSet, 2), One({"."}, 2), Plus(DigitSet, 2)>>
\* r"(\d+['\-]\d+(?:\.\d+)?[\"']?|\d+\.\d+m?)"
dist_patterns ==
    <<<<Plus(DigitSet, 1), One({"'", "-"}, 1), Plus(DigitSet, 1), One({"."}, 1),
        Plus(DigitSet, 1), Opt({"\"", "'"}, 1)>>,
      <<Plus(DigitSet, 1), One({"'", "-"}, 1), Plus(DigitSet, 1),
        Opt({"\"", "'"}, 1)>>,
      <<Plus(DigitSet, 1), One({"."}, 1), Plus(DigitSet, 1), Opt({"m"}, 1)>>>>
\* r'(.+?)\s*\(([^)]+)\)'
paren_pattern ==
    <<LazyAny(1), Star(Blanks, 0), Lit("("),
      Item({")"}, TRUE, 1, Unbounded, FALSE, 2), Lit(")")>>

\* re.split(r'\s{2,}', line)
RECURSIVE split_gaps_from(_, _)
split_gaps_from(line, i) ==
    IF i >= Len(line) THEN <<line>>
    ELSE IF line[i] \in Blanks /\ line[i + 1] \in Blanks
    THEN LET n == ClassRun(Star(Blanks, 0), line, i, 0)
         IN  <<SubSeq(line, 1, i - 1)>>
                \o split_gaps_from(SubSeq(line, i + n, Len(line)), 1)
    ELSE split_gaps_from(line, i + 1)

split_gaps(line) == split_gaps_from(line, 1)

\* the name and the school of a line (lines 197-208)
with_name(result, line) ==
    LET paren_match == re_match(paren_pattern, line, "none")
        parts == split_gaps(line)
    IN  IF paren_match # NoMatch
        THEN [result EXCEPT
                !.athlete_name = strip(Group(paren_pattern, line, paren_match, 1)),
                !.school = strip(Group(paren_pattern, line, paren_match, 2))]
        ELSE IF Len(parts) >= 2
        THEN [result EXCEPT !.athlete_name = strip(parts[1]),
                            !.school = strip(parts[2])]
        ELSE [result EXCEPT !.athlete_name = strip(parts[1])]

\* the result with its place, and the line after the place (lines 158-162),
\* for the outcome  place_match  of the place pattern under  pattern
placed_result(pattern, full_line, place_match) ==
    IF place_match = NoMatch THEN EmptyResult
    ELSE [EmptyResult EXCEPT !.place =
            int(Group(pattern, full_line, place_match, 1)).num]

line_after_place(full_line, place_match) ==
    IF place_match = NoMatch THEN full_line
    ELSE strip(SubSeq(full_line, MatchEnd(place_match), Len(full_line)))

\* the text that  found  matched in  line , and the text in front of it
matched_text(line, found) == SubSeq(line, found.m.start, MatchEnd(found.m) - 1)
text_before(line, found) == strip(SubSeq(line, 1, found.m.start - 1))

\* where the optional wind group of the time pattern starts
wind_start(line, found) ==
    MatchEnd(found.m) + ClassRun(Star(Blanks, 0), line, MatchEnd(found.m), 0)

\* the wind of a line (lines 170-171) for the outcome of the wind group
line_wind(line, is_timed, wind_at, wind_match) ==
    IF is_timed /\ wind_match # NoMatch
    THEN parse_wind(SubSeq(line, wind_at, MatchEnd(wind_match) - 1))
    ELSE NoValue

\* lines 166-208 where the mark pattern was found:  mark  is what the
\* conversion of the matched text gave
multi_marked_line(placed, line, found, mark, wind) ==
    IF mark = Raises THEN [result |-> placed, raised |-> TRUE]
    ELSE [result |-> with_name([placed EXCEPT
                                  !.mark_display = matched_text(line, found),
                                  !.mark = mark,
                                  !.wind = wind],
                               text_before(line, found)),
          raised |-> FALSE]

\* lines 164-208 for the outcome  found  of the search for the mark
multi_searched_line(placed, line, is_timed, found) ==
    IF found.alt = 0
    THEN [result |-> with_name(placed, line), raised |-> FALSE]
    ELSE multi_marked_line(
             placed, line, found,
             mark_of(matched_text(line, found), is_timed),
             line_wind(line, is_timed, wind_start(line, found),
                       re_match_at(wind_pattern, line, "none",
                                   wind_start(line, found))))

\* lines 164-208 for the result with its place and the rest of the line
multi_mark_line(placed, line, is_timed) ==
    multi_searched_line(placed, line, is_timed,
                        re_search_alt(IF is_timed THEN time_patterns
                                      ELSE dist_patterns, line, "none", 1))

\* the body of _parse_text_line for the outcome of the place pattern
multi_placed_line(full_line, is_timed, place_match) ==
    multi_mark_line(placed_result(place_pattern, full_line, place_match),
                    line_after_place(full_line, place_match), is_timed)

\* MilesplitMultiParser._parse_text_line: the result, or an exception
multi_parse_text_line(full_line, is_timed) ==
    multi_placed_line(full_line, is_timed,
                      re_match(place_pattern, full_line, "none"))

\* the loop of _parse_text_results over the lines  i..
RECURSIVE multi_text_lines(_, _, _)
multi_text_lines(lines, i, is_timed) ==
    IF i > Len(lines) THEN Results(<<>>)
    ELSE IF strip(lines[i]) = <<>> THEN multi_text_lines(lines, i + 1, is_timed)
    ELSE appended(multi_parse_text_line(strip(lines[i]), is_timed),
                  multi_text_lines(lines, i + 1, is_timed))

\* MilesplitMultiParser._parse_text_results
multi_parse_text_results(section, is_timed) ==
    multi_text_lines(split(section, "\n"), 1, is_timed)

\* whether the section holds markup (line 75)
has_markup(section) ==
    \/ contains(lower(section), Str("<table"))
    \/ contains(lower(section), Str("<tr"))

\* lines 69-78 of parse, on the section of the event
section_results(section, is_timed) ==
    IF section = <<>> THEN Results(<<>>)
    ELSE IF has_markup(section) THEN parse_html_table(section, is_timed)
    ELSE multi_parse_text_results(section, is_timed)

\* MilesplitMultiParser.parse, from the content of the file on
multi_parse(content, event_config) ==
    section_results(
        multi_find_event_section(content, event_config.event_header),
        is_timed_event(event_config.canonical_event))

----------------------------------------------------------------------------
(* Single-event page extractor (src/scraper/parsers/milesplit_single.py)   *)

\* sep.join(parts)
RECURSIVE join(_, _)
join(parts, sep) ==
    IF parts = <<>> THEN <<>>
    ELSE IF Len(parts) = 1 THEN parts[1]
    ELSE parts[1] \o sep \o join(Tail(parts), sep)

\* MilesplitSingleParser._is_header_line: one of the seven patterns is found
is_header_line(line) ==
    LET l == lower(strip(line))
    IN  \/ \E w \in {Str("boys"), Str("girls"), Str("men"), Str("women")} :
               StartsWith(l, w)
        \/ EndsWith(l, Str("meter")) \/ EndsWith(l, Str("meters"))
        \/ \E w \in {Str("varsity"), Str("jv"), Str("junior varsity")} :
               contains(l, w)
        \/ \E w \in {Str("final"), Str("prelim")} : contains(l, w)
        \/ \E w \in {Str("place"), Str("name"), Str("school"), Str("time"),
                     Str("mark")} : StartsWith(l, w)
        \/ l # <<>> /\ Range(l) = {"-"}
        \/ l # <<>> /\ Range(l) = {"="}

\* the loop of find_event_section (lines 27-37) from line  i  on: start_idx
RECURSIVE skip_header_lines(_, _, _)
skip_header_lines(lines, i, start_idx) ==
    IF i > Len(lines) THEN start_idx
    ELSE IF strip(lines[i]) = <<>> THEN skip_header_lines(lines, i + 1, start_idx)
    ELSE IF is_header_line(strip(lines[i])) THEN skip_header_lines(lines, i + 1, i)
    ELSE start_idx

\* a bug: only one header line is skipped
single_find_event_section_one_header(content, event_header) ==
    LET lines == split(content, "\n")
    IN  join(Drop(lines, Min(skip_header_lines(lines, 1, 0), 1)), <<"\n">>)

\* MilesplitSingleParser.find_event_section: event_header is not read
single_find_event_section(content, event_header) ==
    LET lines == split(content, "\n")
    IN  join(Drop(lines, skip_header_lines(lines, 1, 0)), <<"\n">>)

\* MilesplitSingleParser.parse, from the content of the file on
single_parse(content, event_config) ==
    section_results(
        single_find_event_section(content, event_config.event_header),
        is_timed_event(event_config.canonical_event))

----------------------------------------------------------------------------
(* Generic table extractor (src/scraper/parsers/generic_table.py)          *)

\* \w
WordChars == Letters \cup DigitSet \cup {"_"}

\* r'\n\n\n|\n\s*(Boys|Girls|Men|Women)\s+\w+' , lowercase (re.IGNORECASE)
next_section_pattern ==
    <<<<Lit("\n"), Lit("\n"), Lit("\n")>>,
      <<Lit("\n"), Star(Blanks, 0)>> \o Word(Str("boys"))
          \o <<Plus(Blanks, 0), Plus(WordChars, 0)>>,
      <<Lit("\n"), Star(Blanks, 0)>> \o Word(Str("girls"))
          \o <<Plus(Blanks, 0), Plus(WordChars, 0)>>,
      <<Lit("\n"), Star(Blanks, 0)>> \o Word(Str("men"))
          \o <<Plus(Blanks, 0), Plus(WordChars, 0)>>,
      <<Lit("\n"), Star(Blanks, 0)>> \o Word(Str("women"))
          \o <<Plus(Blanks, 0), Plus(WordChars, 0)>>>>

\* GenericTableParser.find_event_section
generic_find_event_section(content, event_header) ==
    LET start_pos == find(lower(content), lower(event_header))
        match_end == start_pos + Len(event_header)
        remaining == SubSeq(content, match_end, Len(content))
        next_start == search_at_newlines(next_section_pattern, lower(remaining))
    IN  IF event_header = <<>> THEN content
        ELSE IF start_pos = 0 THEN content
        ELSE IF next_start # 0
        THEN SubSeq(content, start_pos, match_end + next_start - 2)
        ELSE SubSeq(content, start_pos, Len(content))

\* the header words of each column (lines 164-175), in the order place, name,
\* school, mark, wind, heat
ColumnWords ==
    [place |-> {Str("pl"), Str("place"), Str("pos"), Str("position"), Str("#")},
     name |-> {Str("name"), Str("athlete"), Str("competitor")},
     school |-> {Str("school"), Str("team"), Str("affiliation")},
     mark |-> {Str("time"), Str("mark"), Str("result"), Str("perf"),
               Str("performance")},
     wind |-> {Str("wind"), Str("w")},
     heat |-> {Str("heat"), Str("ht")}]

\* the greatest element of a set of integers, 0 for the empty set
Greatest(S) == IF S = {} THEN 0 ELSE CHOOSE i \in S : \A j \in S : i >= j

\* GenericTableParser._detect_columns: for each column the index (from 1) of
\* the last header naming it, 0 for None
detect_columns(headers) ==
    [col \in DOMAIN ColumnWords |->
        Greatest({i \in DOMAIN headers : lower(headers[i]) \in ColumnWords[col]})]

HeaderWords ==
    {Str("place"), Str("name"), Str("school"), Str("team"), Str("time"),
     Str("mark"), Str("athlete"), Str("result"), Str("wind"), Str("heat"),
     Str("lane"), Str("pl"), Str("pos")}

MinHeaderMatches == 2

\* GenericTableParser._looks_like_header: the words of the vocabulary found
\* anywhere in the joined text are counted
looks_like_header(parts) ==
    LET text == lower(join(parts, <<" ">>))
    IN  Cardinality({w \in HeaderWords : contains(text, w)}) >= MinHeaderMatches

\* r'^\d{1,2}:\d{2}' ,  r'^\d+\.\d+$' ,  r"^\d+['\-]" ,
\* r'^[A-Za-z][A-Za-z\s,.\'-]+$'
clock_cell_pattern ==
    <<Item(DigitSet, FALSE, 1, 2, FALSE, 0), Lit(":"),
      Item(DigitSet, FALSE, 2, 2, FALSE, 0)>>
seconds_cell_pattern == <<Plus(DigitSet, 0), Lit("."), Plus(DigitSet, 0)>>
distance_cell_pattern == <<Plus(DigitSet, 0), One({"'", "-"}, 0)>>
auto_name_pattern ==
    <<One(Letters, 0), Plus(Letters \cup Blanks \cup {",", ".", "'", "-"}, 0)>>

\* whether  not result.mark  holds: the mark is None or 0.0
no_mark(result) == result.mark = NoValue \/ result.mark.num = 0

\* the loop body on the stripped cell
auto_stripped_cell(st, i, cell, is_timed) ==
    IF st.raised \/ cell = <<>> THEN st
    ELSE IF i = 1 /\ isdigit(cell)
    THEN [st EXCEPT !.result.place = int(cell).num]
    ELSE IF \/ is_timed /\ re_match(clock_cell_pattern, cell, "none") # NoMatch
            \/ /\ is_timed
               /\ re_match(seconds_cell_pattern, cell, "end") # NoMatch
               /\ no_mark(st.result)
            \/ /\ ~is_timed
               /\ re_match(distance_cell_pattern, cell, "none") # NoMatch
    THEN with_mark(st, cell, mark_of(cell, is_timed))
    ELSE IF re_match(auto_name_pattern, cell, "end") # NoMatch
    THEN IF st.result.athlete_name = <<>>
         THEN [st EXCEPT !.result.athlete_name = cell]
         ELSE IF st.result.school = <<>>
         THEN [st EXCEPT !.result.school = cell]
         ELSE st
    ELSE st

\* one pass of the loop of _auto_detect_cells (lines 226-259) over cell  i
auto_cell(st, i, raw, is_timed) == auto_stripped_cell(st, i, strip(raw), is_timed)

RECURSIVE auto_cells(_, _, _, _)
auto_cells(st, cells, i, is_timed) ==
    IF i > Len(cells) THEN st
    ELSE auto_cells(auto_cell(st, i, cells[i], is_timed), cells, i + 1, is_timed)

\* GenericTableParser._auto_detect_cells: the result, or an exception
auto_detect_cells(cells, is_timed) ==
    auto_cells([result |-> EmptyResult, raised |-> FALSE], cells, 1, is_timed)

\* whether a column is mapped and the row has it
has_column(col_map, col, cells) == col_map[col] # 0 /\ col_map[col] <= Len(cells)

\* the cell of a column, empty where the column is not mapped or the row is
\* too short
column(cells, col_map, col) ==
    IF has_column(col_map, col, cells) THEN cells[col_map[col]] ELSE <<>>

\* what the mapped columns other than the mark give (lines 196-218)
mapped_result(cells, col_map) ==
    [EmptyResult EXCEPT
       !.place = IF /\ has_column(col_map, "place", cells)
                    /\ int(cells[col_map["place"]]).ok
                 THEN int(cells[col_map["place"]]).num ELSE Absent,
       !.athlete_name = column(cells, col_map, "name"),
       !.school = column(cells, col_map, "school"),
       !.mark_display = column(cells, col_map, "mark"),
       !.wind = IF has_column(col_map, "wind", cells)
                THEN parse_wind(cells[col_map["wind"]]) ELSE NoValue]

\* the body of _extract_from_cells, where the conversion of the mark column
\* gave  mark , or raised
extracted(cells, col_map, is_timed, mark) ==
    IF mark = Raises THEN [result |-> EmptyResult, raised |-> TRUE]
    ELSE IF column(cells, col_map, "name") = <<>>
    THEN auto_detect_cells(cells, is_timed)
    ELSE [result |-> [mapped_result(cells, col_map) EXCEPT !.mark = mark],
          raised |-> FALSE]

\* a bug: a place read from the mapped column stays when the name is looked
\* for by auto-detection
extract_from_cells_keeps_place(cells, col_map, is_timed) ==
    IF column(cells, col_map, "name") = <<>>
         /\ ~auto_detect_cells(cells, is_timed).raised
    THEN [auto_detect_cells(cells, is_timed) EXCEPT
            !.result.place = mapped_result(cells, col_map).place]
    ELSE extracted(cells, col_map, is_timed,
                   IF has_column(col_map, "mark", cells)
                   THEN mark_of(cells[col_map["mark"]], is_timed) ELSE NoValue)

\* GenericTableParser._extract_from_cells: the result, or an exception
extract_from_cells(cells, col_map, is_timed) ==
    extracted(cells, col_map, is_timed,
              IF has_column(col_map, "mark", cells)
              THEN mark_of(cells[col_map["mark"]], is_timed) ELSE NoValue)

\* the data rows  i..  of a table or of tab-separated lines
RECURSIVE cell_rows(_, _, _, _)
cell_rows(rows, i, col_map, is_timed) ==
    IF i > Len(rows) THEN Results(<<>>)
    ELSE appended(extract_from_cells(rows[i], col_map, is_timed),
                  cell_rows(rows, i + 1, col_map, is_timed))

\* the loop body of _parse_html (lines 83-99) for one table: the first row is
\* taken for the header row whenever it has a cell
html_table(rows, is_timed) ==
    LET headers == IF rows = <<>> THEN <<>>
                   ELSE [i \in DOMAIN rows[1] |-> lower(rows[1][i])]
    IN  cell_rows(IF headers # <<>> THEN Tail(rows) ELSE rows, 1,
                  detect_columns(headers), is_timed)

RECURSIVE html_tables(_, _, _)
html_tables(tables, i, is_timed) ==
    IF i > Len(tables) THEN Results(<<>>)
    ELSE extended(html_table(tables[i], is_timed),
                  html_tables(tables, i + 1, is_timed))

\* GenericTableParser._parse_html
parse_html(section, is_timed) == html_tables(soup_tables(section), 1, is_timed)

\* the index of the first line that is not blank, 0 if there is none
first_filled(lines) ==
    LET filled == {i \in DOMAIN lines : strip(lines[i]) # <<>>}
    IN  IF filled = {} THEN 0 ELSE Least(filled)

\* GenericTableParser._parse_tsv
parse_tsv(section, is_timed) ==
    LET lines == split(strip(section), "\n")
        first == first_filled(lines)
        parts == split(lines[first], "\t")
        is_header == first # 0 /\ looks_like_header(parts)
        headers == IF is_header THEN [i \in DOMAIN parts |-> strip(lower(parts[i]))]
                   ELSE <<>>
        data == SelectSeq(IF is_header THEN Drop(lines, first) ELSE lines,
                          LAMBDA line : strip(line) # <<>>)
        rows == [i \in DOMAIN data |->
                   LET cells == split(data[i], "\t")
                   IN  [j \in DOMAIN cells |-> strip(cells[j])]]
    IN  cell_rows(rows, 1, detect_columns(headers), is_timed)

\* r'^(\d+)[.\s)\]]'
generic_place_pattern == <<Plus(DigitSet, 1), One(Blanks \cup {".", ")", "]"}, 0)>>
\* r'(\d{1,2}:\d{2}\.\d+|\d+\.\d{2})'
generic_time_patterns ==
    <<<<Item(DigitSet, FALSE, 1, 2, FALSE, 1), One({":"}, 1),
        Item(DigitSet, FALSE, 2, 2, FALSE, 1), One({"."}, 1),
        Plus(DigitSet, 1)>>,
      <<Plus(DigitSet, 1), One({"."}, 1), Item(DigitSet, FALSE, 2, 2, FALSE, 1)>>>>
\* r"(\d+['\-]\d+(?:\.\d+)?[\"']?)"
generic_dist_patterns == SubSeq(dist_patterns, 1, 2)

\* the name and the school of a line (lines 288-298): the parts are not
\* stripped
generic_with_name(result, line) ==
    LET paren_match == re_match(paren_pattern, line, "none")
        parts == split_gaps(line)
    IN  IF paren_match # NoMatch
        THEN [result EXCEPT
                !.athlete_name = strip(Group(paren_pattern, line, paren_match, 1)),
                !.school = strip(Group(paren_pattern, line, paren_match, 2))]
        ELSE IF Len(parts) >= 2
        THEN [result EXCEPT !.athlete_name = parts[1], !.school = parts[2]]
        ELSE [result EXCEPT !.athlete_name = parts[1]]

\* lines 280-298 where the mark pattern was found:  mark  is what the
\* conversion of the matched text gave
generic_marked_line(placed, line, found, mark) ==
    IF mark = Raises THEN [result |-> placed, raised |-> TRUE]
    ELSE [result |-> generic_with_name(
                        [placed EXCEPT
                           !.mark_display = matched_text(line, found),
                           !.mark = mark],
                        text_before(line, found)),
          raised |-> FALSE]

\* lines 278-298 for the outcome  found  of the search for the mark
generic_searched_line(placed, line, is_timed, found) ==
    IF found.alt = 0
    THEN [result |-> generic_with_name(placed, line), raised |-> FALSE]
    ELSE generic_marked_line(placed, line, found,
                             mark_of(matched_text(line, found), is_timed))

\* lines 278-298 for the result with its place and the rest of the line
generic_mark_line(placed, line, is_timed) ==
    generic_searched_line(placed, line, is_timed,
                          re_search_alt(IF is_timed THEN generic_time_patterns
                                        ELSE generic_dist_patterns,
                                        line, "none", 1))

\* the body of _parse_text_line for the outcome of the place pattern
generic_placed_line(full_line, is_timed, place_match) ==
    generic_mark_line(
        placed_result(generic_place_pattern, full_line, place_match),
        line_after_place(full_line, place_match), is_timed)

\* GenericTableParser._parse_text_line: the result, or an exception
generic_parse_text_line(full_line, is_timed) ==
    generic_placed_line(full_line, is_timed,
                        re_match(generic_place_pattern, full_line, "none"))

\* the loop of _parse_text over the lines  i..
RECURSIVE generic_text_lines(_, _, _)
generic_text_lines(lines, i, is_timed) ==
    IF i > Len(lines) THEN Results(<<>>)
    ELSE IF strip(lines[i]) = <<>> \/ looks_like_header(<<strip(lines[i])>>)
    THEN generic_text_lines(lines, i + 1, is_timed)
    ELSE appended(generic_parse_text_line(strip(lines[i]), is_timed),
                  generic_text_lines(lines, i + 1, is_timed))

\* GenericTableParser._parse_text
parse_text(section, is_timed) ==
    generic_text_lines(split(strip(section), "\n"), 1, is_timed)

\* lines 56-66 of parse, on the section of the event
generic_section_results(section, is_timed) ==
    IF section = <<>> THEN Results(<<>>)
    ELSE IF contains(lower(section), Str("<table"))
    THEN parse_html(section, is_timed)
    ELSE IF "\t" \in Range(section) THEN parse_tsv(section, is_timed)
    ELSE parse_text(section, is_timed)

\* GenericTableParser.parse, from the content of the file on
generic_parse(content, event_config) ==
    generic_section_results(
        generic_find_event_section(content, event_config.event_header),
        is_timed_event(event_config.canonical_event))

----------------------------------------------------------------------------
(* The extractors at work: the files they are given and their calls        *)

\* most rows of an individual event, most teams of a relay, most data rows
\* of a page, and most earlier calls remembered
MaxRows == 2
MaxTeams == 2
MaxCells == 2
MaxCalls == 2

\* all sequences of at most  n  elements of the set  S
RECURSIVE SeqsUpTo(_, _)
SeqsUpTo(S, n) ==
    IF n = 0 THEN {<<>>}
    ELSE LET shorter == SeqsUpTo(S, n - 1)
         IN  shorter \cup {Append(s, x) : s \in shorter, x \in S}

\* a row of an individual event as the timing system prints it (lines 94-97):
\* place, bib, last and first name, year, school, mark and further columns
Row(place, last, first, year, school, mark, rest) ==
    [place |-> Str(place), last |-> Str(last), first |-> Str(first),
     year |-> Str(year), school |-> Str(school), mark |-> Str(mark),
     rest |-> Str(rest)]

render_row(r) ==
    Str(" ") \o r.place \o Str(" # 7 ") \o r.last \o Str(", ") \o r.first
        \o Str(" ") \o r.year \o Str(" ") \o r.school \o Str(" ") \o r.mark
        \o (IF r.rest = <<>> THEN <<>> ELSE Str(" ") \o r.rest) \o Str("\n")

\* rows with a number, with a letter code before further columns, with a
\* letter code at the end of the line, and with a non-scoring time
RowPool ==
    {Row("6", "Fo", "Ava", "10", "Erie", "12.71", "0.1 3"),
     Row("5", "Do", "Cy", "12", "Mead", "DNF", "2 4"),
     Row("7", "Wa", "Jo", "9", "Rocky", "DQ", ""),
     Row("23", "Le", "Sam", "11", "Niwot", "x4:38.45", "4")}

\* a relay team (lines 186, 192): its header and its member lines, each line
\* a sequence of members
Member(last, first, year) ==
    [last |-> Str(last), first |-> Str(first), year |-> Str(year)]
Team(place, school, letter, mark, lines) ==
    [place |-> Str(place), school |-> Str(school), letter |-> Str(letter),
     mark |-> Str(mark), lines |-> lines]

\* the members of a team in the order they are listed
members_of(team) == flatten(team.lines)

render_member(m, leg) ==
    IntText(leg) \o Str(") #7 ") \o m.last \o Str(", ") \o m.first \o Str(" ")
        \o m.year

RECURSIVE render_member_line(_, _)
render_member_line(members, leg) ==
    IF members = <<>> THEN Str("\n")
    ELSE Str(" ") \o render_member(members[1], leg)
            \o render_member_line(Tail(members), leg + 1)

RECURSIVE render_member_lines(_, _)
render_member_lines(lines, leg) ==
    IF lines = <<>> THEN <<>>
    ELSE render_member_line(lines[1], leg)
            \o render_member_lines(Tail(lines), leg + Len(lines[1]))

render_team(t) ==
    Str(" ") \o t.place \o Str(" ") \o t.school \o Str(" '") \o t.letter
        \o Str("' ") \o t.mark \o Str(" 1\n") \o render_member_lines(t.lines, 1)

\* teams with one member on each line, with two members on a line, and with
\* a mark whose minutes are missing
TeamPool ==
    {Team("1", "Erie", "A", "3:45.10",
          <<<<Member("Ho", "Mae", "10")>>, <<Member("Su", "Sal", "9")>>>>),
     Team("2", "Mead", "B", "3:50.00",
          <<<<Member("Ab", "Cy", "11"), Member("Ef", "Di", "12")>>>>),
     Team("3", "Rocky", "C", ":45.5", <<<<Member("Gi", "Hal", "9")>>>>)}

IndividualHeader == Str("Event 1  Girls 100 Meter Dash\n")
RelayHeader == Str("Event 2  Girls 4x100 Meter Relay\n")

RECURSIVE render_all(_, _)
render_all(items, kind) ==
    IF items = <<>> THEN <<>>
    ELSE (IF kind = "rows" THEN render_row(items[1]) ELSE render_team(items[1]))
            \o render_all(Tail(items), kind)

\* a results file of the timing system: an individual event and a relay
HyTekFile(rows, teams) ==
    [rows |-> rows, teams |-> teams, title |-> <<>>, head |-> <<>>,
     format |-> "hytek",
     content |-> (IF rows = <<>> THEN <<>>
                  ELSE IndividualHeader \o render_all(rows, "rows"))
                 \o (IF teams = <<>> THEN <<>>
                     ELSE RelayHeader \o render_all(teams, "teams"))]

HyTekFiles ==
    {HyTekFile(rows, <<>>) : rows \in SeqsUpTo(RowPool, MaxRows)}
        \cup {HyTekFile(<<>>, teams) : teams \in SeqsUpTo(TeamPool, MaxTeams)}
        \cup {HyTekFile(<<r>>, <<t>>) : r \in RowPool, t \in TeamPool}

\* the rows of a results page as cells: a full row, a row whose mark does
\* not convert, a row without a name, and a row of the single cell "Place"
NamelessRow == <<Str("3"), Str("12.00")>>
CellRowPool ==
    {<<Str("1"), Str("Al Bo"), Str("Erie"), Str("11.45")>>,
     <<Str("2"), Str("Cy Di"), Str("Mead"), Str("1.2.3m")>>,
     NamelessRow,
     <<Str("Place")>>}

ColumnHeads == <<Str("Place"), Str("Name"), Str("School"), Str("Time")>>
PageTitle == Str("Boys 100 Meters")
OtherTitle == Str("Girls Shot Put")

\* a row of cells as text with wide gaps, as tab-separated text, as markup
render_cells(cells, format) ==
    IF format = "text" THEN join(cells, Str("  ")) \o Str("\n")
    ELSE IF format = "tsv" THEN join(cells, Str("\t")) \o Str("\n")
    ELSE Str("<tr>")
            \o flatten([i \in DOMAIN cells |->
                           Str("<td>") \o cells[i] \o Str("</td>")])
            \o Str("</tr>\n")

\* a results page: an optional title, an optional row of column heads, rows
PageFile(format, title, head, rows) ==
    LET all_rows == (IF head = <<>> THEN <<>> ELSE <<head>>) \o rows
        body == flatten([i \in DOMAIN all_rows |->
                            render_cells(all_rows[i], format)])
    IN  [rows |-> rows, teams |-> <<>>, title |-> title, head |-> head,
         format |-> format,
         content |-> (IF title = <<>> THEN <<>> ELSE title \o Str("\n"))
                     \o (IF format = "html"
                         THEN Str("<table>\n") \o body \o Str("</table>\n")
                         ELSE body)]

PageFiles ==
    {PageFile(format, title, head, rows) :
        format \in {"text", "tsv", "html"}, title \in {<<>>, PageTitle},
        head \in {<<>>, ColumnHeads}, rows \in SeqsUpTo(CellRowPool, MaxCells)}

\* the event_config of a call: for the timing system the canonical event
\* with its gender, for a page the event_header and a timed or field event
HyTekConfigs ==
    {EventConfig(FALSE, <<>>, <<>>, <<>>),
     EventConfig(TRUE, Str("100 Meter Dash"), Str("Girls"), <<>>),
     EventConfig(TRUE, Str("100 Meter Dash"), Str("Girls"), OtherTitle)}
PageConfigs ==
    {EventConfig(TRUE, canonical, <<>>, header) :
        canonical \in {Str("100m"), Str("Shot Put")},
        header \in {<<>>, PageTitle, OtherTitle}}

\* the files and the event configs of a run: all of them, or a few
ExampleRows == <<<<Str("1"), Str("Al Bo"), Str("Erie"), Str("11.45")>>>>
\* mark tokens of the rows of the timing system: seconds, minutes and
\* seconds, hours, feet and inches; bare, with a letter in front, with a
\* letter behind
MarkBodies ==
    {Str("12.71"), Str("9.5"), Str("4:38.45"), Str("1:02.3"),
     Str("1:02:03.45"), Str("10-04.00"), Str("19-08.25")}
MarkTokens ==
    {before \o body \o after :
        before \in {<<>>, Str("x"), Str("J")}, body \in MarkBodies,
        after \in {<<>>, Str("S")}}

\* a file with one row that carries the mark token
MarkFile(token) ==
    HyTekFile(<<[Row("6", "Fo", "Ava", "10", "Erie", "", "3")
                   EXCEPT !.mark = token]>>, <<>>)

\* relay teams: two with a time, and a disqualified one, whose line has a
\* letter code where the time would be
RelayTeams ==
    {Team("1", "Erie", "A", "3:45.10", <<<<Member("Ho", "Mae", "10")>>>>),
     Team("2", "Rocky", "C", "3:50.00", <<<<Member("Gi", "Hal", "9")>>>>),
     Team("4", "Mead", "B", "DQ", <<<<Member("Ab", "Cy", "11")>>>>)}

\* a file whose only event is a boys' event
BoysHeader == Str("Event 3  Boys 100 Meter Dash\n")
BoysFile ==
    [HyTekFile(<<Row("1", "Ko", "Ben", "11", "Erie", "11.02", "2")>>, <<>>)
       EXCEPT !.title = BoysHeader,
              !.content = BoysHeader
                  \o render_row(Row("1", "Ko", "Ben", "11", "Erie", "11.02",
                                    "2"))]

HyTekFilesIn(dir) ==
    IF dir = "all" THEN HyTekFiles
    ELSE IF dir = "hytek"
    THEN {MarkFile(token) : token \in MarkTokens}
         \cup {HyTekFile(<<>>, teams) : teams \in SeqsUpTo(RelayTeams, MaxTeams)}
         \cup {BoysFile}
    ELSE {HyTekFile(<<r>>, <<>>) :
            r \in {Row("6", "Fo", "Ava", "10", "Erie", "12.71", "0.1 3")}}
         \cup {HyTekFile(<<>>, <<t>>) :
                 t \in {Team("1", "Erie", "A", "3:45.10",
                             <<<<Member("Ho", "Mae", "10")>>>>)}}
PageFilesIn(dir) ==
    IF dir = "all" THEN PageFiles
    ELSE {PageFile(format, PageTitle, <<>>, ExampleRows) :
            format \in {"text", "html"}}
HyTekConfigsIn(dir) ==
    IF dir = "all" THEN HyTekConfigs
    ELSE IF dir = "hytek"
    THEN {EventConfig(FALSE, <<>>, <<>>, <<>>),
          EventConfig(TRUE, Str("100 Meter Dash"), Str("Boys"), <<>>),
          EventConfig(TRUE, Str("100 Meter Dash"), Str("boys"), <<>>),
          EventConfig(TRUE, Str("100m"), Str("boys"), <<>>)}
    ELSE {EventConfig(FALSE, <<>>, <<>>, <<>>)}
PageConfigsIn(dir) ==
    IF dir = "all" THEN PageConfigs
    ELSE {EventConfig(TRUE, Str("100m"), <<>>, PageTitle)}

ParserNames ==
    {"milesplit_multi", "milesplit_single", "generic_table", "hytek_text"}

\* a bug: the instance keeps the results of a call, and the next call
\* through it returns them in front of its own
parse_call_keeps_results(self, out) ==
    IF out.kind = "raise" THEN [self |-> self, out |-> out]
    ELSE [self |-> out.results, out |-> Results(self \o out.results)]

\* get_parser(name).parse(path, event_config) on the shared instance  self ,
\* where the method computes  out : what the call returns and the attributes
\* of the instance after it; no method of the four classes assigns to self
parse_call(self, out) == [self |-> self, out |-> out]

\* a call as the history keeps it
Call(name, file, event_config, out) ==
    [parser |-> name, file |-> file, config |-> event_config, out |-> out]

NoFile == HyTekFile(<<>>, <<>>)
NoConfig == EventConfig(FALSE, <<>>, <<>>, <<>>)

ExtractUnused ==
    /\ PARSERS = [name \in ParserNames |-> <<>>]
    /\ ex_dir = "none"
    /\ ex_keep = 0
    /\ ex_history = <<>>
    /\ ex_pc = "idle"
    /\ ex_parser = "none"
    /\ ex_file = NoFile
    /\ ex_cfg = NoConfig
    /\ ex_out = Results(<<>>)

\* PARSERS (src/scraper/parsers/__init__.py lines 10-15): one instance of
\* each class, shared by all callers
ExtractInit(dir, keep) ==
    /\ PARSERS = [name \in ParserNames |-> <<>>]
    /\ ex_dir = dir
    /\ ex_keep = keep
    /\ ex_history = <<>>
    /\ ex_pc = "idle"
    /\ ex_parser = "none"
    /\ ex_file = NoFile
    /\ ex_cfg = NoConfig
    /\ ex_out = Results(<<>>)

\* one call of parse through the registry; the method of the class
\* registered under  name  computes  out
Parse(name, file, event_config, out) ==
    LET returned(r) ==
            /\ ex_pc = "idle"
            /\ ex_pc' = "returned"
            /\ ex_parser' = name
            /\ ex_file' = file
            /\ ex_cfg' = event_config
            /\ ex_out' = r.out
            /\ PARSERS' = [PARSERS EXCEPT ![name] = r.self]
            /\ UNCHANGED <<ex_dir, ex_keep, ex_history, except_extract>>
    IN  returned(parse_call(PARSERS[name], out))

ParseHyTek ==
    \E file \in HyTekFilesIn(ex_dir), event_config \in HyTekConfigsIn(ex_dir) :
        Parse("hytek_text", file, event_config,
              hytek_parse(file.content, event_config))

ParseMulti ==
    \E file \in PageFilesIn(ex_dir), event_config \in PageConfigsIn(ex_dir) :
        Parse("milesplit_multi", file, event_config,
              multi_parse(file.content, event_config))

ParseSingle ==
    \E file \in PageFilesIn(ex_dir), event_config \in PageConfigsIn(ex_dir) :
        Parse("milesplit_single", file, event_config,
              single_parse(file.content, event_config))

ParseGeneric ==
    \E file \in PageFilesIn(ex_dir), event_config \in PageConfigsIn(ex_dir) :
        Parse("generic_table", file, event_config,
              generic_parse(file.content, event_config))

\* the caller takes the results; the call joins the last  ex_keep  calls
ExtractDone ==
    /\ ex_pc = "returned"
    /\ ex_pc' = "idle"
    /\ ex_history' =
          LET all == Append(ex_history, Call(ex_parser, ex_file, ex_cfg, ex_out))
          IN  IF Len(all) > ex_keep THEN Tail(all) ELSE all
    /\ ex_parser' = "none"
    /\ ex_file' = NoFile
    /\ ex_cfg' = NoConfig
    /\ ex_out' = Results(<<>>)
    /\ UNCHANGED <<PARSERS, ex_dir, ex_keep, except_extract>>

\* the lines of the pages find_event_section is called on: two event
\* titles, a row, a blank line, a rule
SectionLines ==
    {Str("Boys 100 Meters"), Str(" girls Shot Put"), Str("1 Al Erie 11.45"),
     <<>>, Str("==")}

\* how many lines such a page has
MaxLines == 3

SectionPages ==
    {join(lines, <<"\n">>) : lines \in SeqsUpTo(SectionLines, MaxLines)}

\* the event_header of the call: none, a title, part of a title in another
\* case, a title no page has
SectionHeaders == {<<>>, Str("Boys 100 Meters"), Str("100 m"), Str("Discus")}

\* find_event_section has returned  section
FindEventSection(name, content, event_header, section) ==
    /\ ex_pc = "idle"
    /\ ex_pc' = "returned"
    /\ ex_parser' = name
    /\ ex_file' = [NoFile EXCEPT !.content = content]
    /\ ex_cfg' = EventConfig(FALSE, <<>>, <<>>, event_header)
    /\ ex_out' = [kind |-> "section", results |-> section]
    /\ UNCHANGED <<PARSERS, ex_dir, ex_keep, ex_history, except_extract>>

FindSectionMulti ==
    \E content \in SectionPages, event_header \in SectionHeaders :
        FindEventSection("milesplit_multi", content, event_header,
                         multi_find_event_section(content, event_header))

FindSectionSingle ==
    \E content \in SectionPages, event_header \in SectionHeaders :
        FindEventSection("milesplit_single", content, event_header,
                         single_find_event_section(content, event_header))

\* the cells of the rows _extract_from_cells is called on: a place, a name,
\* a school, a mark, an empty cell
RowCells == {Str("1"), Str("Al Bo"), Str("Erie"), Str("11.45"), <<>>}

\* how many cells such a row has
MaxRowCells == 3

\* the header rows the column map is made from: none, the usual one, one
\* that begins with the name, one without a name column
HeaderRows ==
    {<<>>, <<Str("Place"), Str("Name"), Str("School")>>,
     <<Str("Name"), Str("Pl"), Str("Time")>>, <<Str("Team"), Str("Mark")>>}

\* _extract_from_cells has returned  got.result  or raised
CellsExtracted(headers, cells, is_timed, got) ==
    /\ ex_pc = "idle"
    /\ ex_pc' = "returned"
    /\ ex_parser' = "generic_table"
    /\ ex_file' = [NoFile EXCEPT !.head = headers, !.rows = <<cells>>]
    /\ ex_cfg' = EventConfig(TRUE, IF is_timed THEN Str("100m")
                                   ELSE Str("Shot Put"), <<>>, <<>>)
    /\ ex_out' = IF got.raised THEN Raised ELSE Results(<<got.result>>)
    /\ UNCHANGED <<PARSERS, ex_dir, ex_keep, ex_history, except_extract>>

ExtractFromCells ==
    \E headers \in HeaderRows, cells \in SeqsUpTo(RowCells, MaxRowCells),
       is_timed \in BOOLEAN :
        CellsExtracted(headers, cells, is_timed,
                       extract_from_cells(cells, detect_columns(headers),
                                          is_timed))

----------------------------------------------------------------------------
(* Database (src/scraper/database.py): the meets and events tables and the
   results handed to add_result.  Every call opens its own connection and
   commits on return, so a call either takes effect whole or raises. *)

\* SQL "stored = ?": a comparison in which either side is NULL is never true
sql_equals(stored, value) == stored # None /\ value # None /\ stored = value

\* the row fetchone() returns: the rows are scanned in rowid order
Lowest(S) == CHOOSE i \in S : \A j \in S : i <= j

\* SELECT id FROM meets WHERE name = ? AND meet_date = ?
matching_meets(meets, name, meet_date) ==
    {i \in DOMAIN meets : /\ sql_equals(meets[i].name, name)
                          /\ sql_equals(meets[i].meet_date, meet_date)}

\* Database.get_or_create_meet: [rows, id], the table afterwards and the id
\* returned (venue, location and season are stored but never compared)
get_or_create_meet(meets, name, meet_date, level) ==
    IF matching_meets(meets, name, meet_date) # {}
    THEN [rows |-> [i \in DOMAIN meets |->
                      IF meets[i].id
                           = meets[Lowest(matching_meets(meets, name,
                                                         meet_date))].id
                      THEN [meets[i] EXCEPT !.level = level]
                      ELSE meets[i]],
          id |-> meets[Lowest(matching_meets(meets, name, meet_date))].id]
    ELSE [rows |-> Append(meets, [id |-> Len(meets) + 1, name |-> name,
                                  meet_date |-> meet_date, level |-> level]),
          id |-> Len(meets) + 1]

\* SELECT id FROM events WHERE name = ?
matching_events(rows, name) ==
    {i \in DOMAIN rows : sql_equals(rows[i].name, name)}

\* Database.get_or_create_event: [rows, id]
get_or_create_event(rows, name) ==
    IF matching_events(rows, name) # {}
    THEN [rows |-> rows, id |-> rows[Lowest(matching_events(rows, name))].id]
    ELSE [rows |-> Append(rows, [id |-> Len(rows) + 1, name |-> name]),
          id |-> Len(rows) + 1]

\* names, dates and levels the callers pass
MeetNames == {Str("M"), Str("N")}
MeetDates == {None, Str("d"), Str("e")}
Levels == {Str("varsity"), Str("jv")}
EventNames == {Str("100m"), Str("200m")}

\* how many direct calls of the database a run makes
MaxDbCalls == 3

\* the database and the orchestrator before anything has run
ScraperUnused ==
    /\ db_meets = <<>>
    /\ db_events = <<>>
    /\ db_added = <<>>
    /\ db_calls = <<>>
    /\ sc_entry = "none"
    /\ sc_dir_exists = FALSE
    /\ yaml_files = <<>>
    /\ sc_mappings = <<>>
    /\ sc_pc = "done"
    /\ sc_i = 1
    /\ sc_log = <<>>

\* Database.__init__ followed by initialize_events_from_config: the events
\* table holds the configured events, the other tables are empty
DatabaseInit ==
    /\ db_meets = <<>>
    /\ db_events \in {<<>>, <<[id |-> 1, name |-> Str("100m")]>>}
    /\ db_added = <<>>
    /\ db_calls = <<>>
    /\ sc_entry = "none"
    /\ sc_dir_exists = FALSE
    /\ yaml_files = <<>>
    /\ sc_mappings = <<>>
    /\ sc_pc = "done"
    /\ sc_i = 1
    /\ sc_log = <<>>

\* the call has returned  got.id  and left the table as  got.rows
MeetReturned(got, name, meet_date) ==
    /\ db_meets' = got.rows
    /\ db_calls' = Append(db_calls, [fn |-> "get_or_create_meet",
                                     name |-> name, meet_date |-> meet_date,
                                     id |-> got.id])

\* a caller asks for the meet (name, meet_date)
GetOrCreateMeet ==
    /\ Len(db_calls) < MaxDbCalls
    /\ \E name \in MeetNames, meet_date \in MeetDates, level \in Levels :
          MeetReturned(get_or_create_meet(db_meets, name, meet_date, level),
                       name, meet_date)
    /\ UNCHANGED <<db_events, db_added, sc_entry, sc_dir_exists, yaml_files,
                   sc_mappings, sc_pc, sc_i, sc_log, except_scraper>>

EventReturned(got, name) ==
    /\ db_events' = got.rows
    /\ db_calls' = Append(db_calls, [fn |-> "get_or_create_event",
                                     name |-> name, meet_date |-> None,
                                     id |-> got.id])

\* a caller asks for the event  name
GetOrCreateEvent ==
    /\ Len(db_calls) < MaxDbCalls
    /\ \E name \in EventNames :
          EventReturned(get_or_create_event(db_events, name), name)
    /\ UNCHANGED <<db_meets, db_added, sc_entry, sc_dir_exists, yaml_files,
                   sc_mappings, sc_pc, sc_i, sc_log, except_scraper>>

----------------------------------------------------------------------------
(* Scraper (src/scraper/scraper.py).  The methods are functions of  st , the
   record [meets, events, added, log, mappings, raised]: the tables, the
   log, self.current_name_mappings, and the exception in flight ("" when
   there is none). *)

Logged(st, level, msg, at) ==
    [st EXCEPT !.log = Append(@, [level |-> level, msg |-> msg, at |-> at])]

raise(st, exception) == [st EXCEPT !.raised = exception]

\* self.current_name_mappings.get(athlete_name, athlete_name)
mapped_name(athlete_name, mappings) ==
    IF \E i \in DOMAIN mappings : mappings[i].key = athlete_name
    THEN mappings[Lowest({i \in DOMAIN mappings :
                             mappings[i].key = athlete_name})].val
    ELSE athlete_name

\* Scraper._split_name
_split_name(full_name) ==
    IF full_name \in {<<>>, None} THEN NamePair(<<>>, <<>>)
    ELSE split_name(full_name)

\* Scraper._save_result: a result without a name is dropped, any other is
\* handed to add_result under its athlete
_save_result(st, result, event_id, meet_id, gender, level) ==
    IF _split_name(mapped_name(result.athlete_name, st.mappings))
         = NamePair(<<>>, <<>>)
    THEN st
    ELSE [st EXCEPT !.added =
            Append(@, [athlete |-> _split_name(mapped_name(result.athlete_name,
                                                           st.mappings)),
                       event_id |-> event_id, meet_id |-> meet_id,
                       gender |-> gender, level |-> level,
                       mark |-> result.mark])]

\* for result in results: if is_target_school(result.school): _save_result
RECURSIVE save_target_results(_, _, _, _, _, _)
save_target_results(st, results, event_id, meet_id, gender, level) ==
    IF results = <<>> THEN st
    ELSE save_target_results(
             IF is_target_school(Head(results).school, target_aliases,
                                 threshold, excluded_aliases).ret
             THEN _save_result(st, Head(results), event_id, meet_id, gender,
                               level)
             ELSE st,
             Tail(results), event_id, meet_id, gender, level)

\* 'M' / 'F' / 'U' from event_config.get('gender', default_gender or '')
gender_code(gender, default_gender) ==
    IF lower(IF gender = None
             THEN (IF default_gender = None THEN <<>> ELSE default_gender)
             ELSE gender) \in {Str("boys"), Str("male"), Str("m")}
    THEN "M"
    ELSE IF lower(IF gender = None
                  THEN (IF default_gender = None THEN <<>> ELSE default_gender)
                  ELSE gender) \in {Str("girls"), Str("female"), Str("f")}
    THEN "F"
    ELSE "U"

\* Scraper._process_event from the parse onwards;  event  is what
\* get_or_create_event returned.  event_config.parsed stands for what
\* parser.parse(file_path, event_config) produces on the file
parsed_event(st, at, event_config, event, meet_id, default_gender) ==
    IF event_config.parsed.kind = "raise"
    THEN Logged([st EXCEPT !.events = event.rows], "error", "Error parsing", at)
    ELSE save_target_results(
             Logged([st EXCEPT !.events = event.rows], "info", "Found results",
                    at),
             event_config.parsed.results, event.id, meet_id,
             gender_code(event_config.gender, default_gender),
             event_config.level)

\* Scraper._process_event
_process_event(st, at, event_config, meet_id, default_gender) ==
    IF event_config.canonical_event \in {None, <<>>}
    THEN Logged(Logged(st, "info", "Processing event", at),
                "warning", "No canonical event specified", at)
    ELSE parsed_event(Logged(st, "info", "Processing event", at), at,
                      event_config,
                      get_or_create_event(st.events,
                                          event_config.canonical_event),
                      meet_id, default_gender)

\* positional parameters of _process_event after self, and the positional
\* arguments _process_source calls it with
process_event_parameters == 5
process_event_arguments == 6

\* a Python call binds its positional arguments to the parameters; one
\* argument too many is a TypeError raised at the call
accepts(parameters, arguments) == arguments <= parameters

\* for event_config in events: self._process_event(...)
RECURSIVE process_events(_, _, _, _, _, _, _)
process_events(st, meet, source, listed, k, meet_id, default_gender) ==
    IF k > Len(listed) \/ st.raised # "" THEN st
    ELSE process_events(
             IF accepts(process_event_parameters, process_event_arguments)
             THEN _process_event(st, <<meet, source, k>>, listed[k], meet_id,
                                 default_gender)
             ELSE raise(st, "TypeError"),
             meet, source, listed, k + 1, meet_id, default_gender)

\* one auto-detected event: matched and saved, or not matched and skipped
detected_event(st, at, found, event, meet_id, meet_level) ==
    save_target_results(
        Logged([st EXCEPT !.events = event.rows], "info", "Found results", at),
        found.results, event.id, meet_id, found.gender_code, meet_level)

RECURSIVE detected_events(_, _, _, _, _, _, _)
detected_events(st, meet, source, found, k, meet_id, meet_level) ==
    IF k > Len(found) THEN st
    ELSE detected_events(
             IF found[k].matched = None
             THEN Logged(st, "warning", "Could not match event",
                         <<meet, source, k>>)
             ELSE detected_event(st, <<meet, source, k>>, found[k],
                                 get_or_create_event(st.events,
                                                     found[k].matched),
                                 meet_id, meet_level),
             meet, source, found, k + 1, meet_id, meet_level)

\* Scraper._process_auto_detect;  file.detected  stands for the events and
\* results the file yields, or for the exception reading them raises
_process_auto_detect(st, meet, source, file, meet_id, meet_level) ==
    IF file.detected.kind = "raise" THEN raise(st, "AttributeError")
    ELSE detected_events(Logged(st, "info", "Auto-detected events",
                                <<meet, source, 0>>),
                         meet, source, file.detected.events, 1, meet_id,
                         meet_level)

\* get_parser (src/scraper/parsers/__init__.py): ValueError for a name the
\* registry does not hold
get_parser(name) == [name |-> name, raised |-> name \notin DOMAIN PARSERS]

\* source.get('parser', 'generic_table')
parser_name(source) ==
    IF source.parser = "<absent>" THEN "generic_table" ELSE source.parser

\* Scraper._process_source
_process_source(st, meet, s, source, meet_id, meet_level) ==
    IF ~source.file.exists
    THEN Logged(st, "warning", "Source file not found", <<meet, s, 0>>)
    ELSE IF get_parser(parser_name(source)).raised
    THEN raise(st, "ValueError")
    ELSE IF source.events # <<>>
    THEN process_events(Logged(st, "info", "Processing source", <<meet, s, 0>>),
                        meet, s, source.events, 1, meet_id, source.gender)
    ELSE _process_auto_detect(
             Logged(st, "info", "Processing source", <<meet, s, 0>>),
             meet, s, source.file, meet_id, meet_level)

\* for source in config.get('sources', []): self._process_source(...)
RECURSIVE process_sources(_, _, _, _, _, _)
process_sources(st, meet, sources, s, meet_id, meet_level) ==
    IF s > Len(sources) \/ st.raised # "" THEN st
    ELSE process_sources(
             _process_source(st, meet, s, sources[s], meet_id, meet_level),
             meet, sources, s + 1, meet_id, meet_level)

\* Scraper.scrape_meet once the meet row is known
meet_sources(st, yaml_path, config, meet) ==
    process_sources(
        Logged([st EXCEPT !.meets = meet.rows,
                          !.mappings = config.name_mappings],
               "info", "Meet ID", <<yaml_path, 0, 0>>),
        yaml_path, config.sources, 1, meet.id, config.level)

\* meet_info.get('name', 'Unknown Meet')
meet_name(config) ==
    IF config.name = None THEN Str("Unknown Meet") ELSE config.name

\* Scraper.scrape_meet.  A file that does not load raises after the first log
\* line; a database that cannot be written raises at get_or_create_meet
scrape_meet(st, yaml_path, config, storage_ok) ==
    IF ~config.readable
    THEN raise(Logged(st, "info", "Processing meet", <<yaml_path, 0, 0>>),
               "YAMLError")
    ELSE IF ~storage_ok
    THEN raise(Logged(st, "info", "Processing meet", <<yaml_path, 0, 0>>),
               "OperationalError")
    ELSE meet_sources(Logged(st, "info", "Processing meet",
                             <<yaml_path, 0, 0>>),
                      yaml_path, config,
                      get_or_create_meet(st.meets, meet_name(config),
                                         config.date, config.level))

\* the loop body of scrape_all and scrape_directory without its handler: the
\* exception stays in flight and leaves the loop
except_exception_reraise(st, yaml_path) == st

\* except Exception as e: logger.error(...): the exception ends here
except_exception(st, yaml_path) ==
    IF st.raised # ""
    THEN raise(Logged(st, "error", "Error processing", <<yaml_path, 0, 0>>), "")
    ELSE st

\* what the documents hold
ResultFC == [athlete_name |-> Str("A B"), school |-> Str("FC"), mark |-> 1]
ResultOther == [athlete_name |-> Str("C D"), school |-> Str("fcc"), mark |-> 2]
ResultUnnamed == [athlete_name |-> <<>>, school |-> Str("fc"), mark |-> 3]

ListedEvent(canonical_event, gender, parsed) ==
    [canonical_event |-> canonical_event, gender |-> gender,
     level |-> Str("varsity"), parsed |-> parsed]

EventFound == ListedEvent(Str("100m"), Str("Boys"),
                          Results(<<ResultOther, ResultFC>>))
EventSecond == ListedEvent(Str("200m"), None,
                           Results(<<ResultFC, ResultUnnamed>>))
EventMissing == ListedEvent(Str("100m"), Str("girls"), Results(<<>>))
EventFails == ListedEvent(Str("200m"), Str("boys"), Raised)
EventUnnamed == ListedEvent(None, Str("boys"), Results(<<ResultFC>>))

NotDetected == [kind |-> "events", events |-> <<>>]
Detected(found) == [kind |-> "events", events |-> found]
DetectRaises == [kind |-> "raise", events |-> <<>>]

SourceFile(exists, detected) == [exists |-> exists, detected |-> detected]

Source(file, parser, listed) ==
    [file |-> file, parser |-> parser, gender |-> Str("girls"),
     events |-> listed]

\* sources lists of the meet configurations
SourceLists ==
    {<<>>,
     <<Source(SourceFile(FALSE, NotDetected), "hytek_text", <<EventFound>>)>>,
     <<Source(SourceFile(TRUE, NotDetected), "bogus", <<EventFound>>)>>,
     <<Source(SourceFile(TRUE, NotDetected), "hytek_text", <<EventFound>>)>>,
     <<Source(SourceFile(TRUE, NotDetected), "<absent>",
              <<EventMissing, EventFound>>)>>,
     <<Source(SourceFile(TRUE, NotDetected), "milesplit_multi",
              <<EventFails, EventSecond>>)>>,
     <<Source(SourceFile(TRUE, NotDetected), "hytek_text",
              <<EventUnnamed, EventFound>>)>>,
     <<Source(SourceFile(TRUE,
                         Detected(<<[matched |-> None, gender_code |-> "U",
                                     results |-> <<ResultFC>>],
                                    [matched |-> Str("200m"),
                                     gender_code |-> "M",
                                     results |-> <<ResultFC, ResultOther>>]>>)),
              "hytek_text", <<>>)>>,
     <<Source(SourceFile(TRUE, DetectRaises), "generic_table", <<>>)>>,
     <<Source(SourceFile(FALSE, NotDetected), "hytek_text", <<EventFound>>),
       Source(SourceFile(TRUE, NotDetected), "hytek_text", <<EventFound>>)>>}

MeetConfig(readable, name, date, mappings, sources) ==
    [readable |-> readable, name |-> name, date |-> date,
     level |-> Str("varsity"), name_mappings |-> mappings,
     sources |-> sources]

\* the meet configuration files a run can find
MeetPool ==
    {MeetConfig(TRUE, Str("M"), date, <<>>, sources) :
        date \in {None, Str("d")}, sources \in SourceLists}
      \cup {MeetConfig(FALSE, None, None, <<>>, <<>>),
            MeetConfig(TRUE, None, None,
                       <<[key |-> Str("A B"), val |-> Str("B, A")]>>,
                       <<Source(SourceFile(TRUE,
                            Detected(<<[matched |-> Str("100m"),
                                        gender_code |-> "F",
                                        results |-> <<ResultFC>>]>>)),
                                "hytek_text", <<>>)>>)}

\* how many meet files a run finds
MaxMeets == 2

\* Scraper.__init__ and the files on disk when scrape_all or
\* scrape_directory is called
ScraperInit ==
    /\ db_meets = <<>>
    /\ db_events = <<[id |-> 1, name |-> Str("100m")]>>
    /\ db_added = <<>>
    /\ db_calls = <<>>
    /\ sc_entry \in {"scrape_all", "scrape_directory"}
    /\ sc_dir_exists \in (IF sc_entry = "scrape_all" THEN {TRUE} ELSE BOOLEAN)
    /\ yaml_files \in UNION {[1..n -> MeetPool] : n \in 0..MaxMeets}
    /\ sc_mappings = <<>>
    /\ sc_pc = "start"
    /\ sc_i = 1
    /\ sc_log = <<>>

\* the school matcher the scraper is built with
SchoolConfigured ==
    /\ target_aliases = <<Str("fc")>>
    /\ threshold = DefaultThreshold
    /\ excluded_aliases = <<Str("fcc")>>
    /\ school_pc = "idle"
    /\ school_name = <<>>
    /\ school_out = [ret |-> FALSE, line |-> 0]

\* Scraper.scrape_all up to its loop
ScrapeAll ==
    /\ sc_pc = "start"
    /\ sc_entry = "scrape_all"
    /\ sc_log' = Append(sc_log, [level |-> "info", msg |-> "Found files",
                                 at |-> <<Len(yaml_files), 0, 0>>])
    /\ sc_pc' = IF yaml_files = <<>> THEN "done" ELSE "loop"
    /\ UNCHANGED <<db_meets, db_events, db_added, db_calls, sc_entry,
                   sc_dir_exists, yaml_files, sc_mappings, sc_i,
                   except_scraper>>

\* Scraper.scrape_directory up to its loop: a missing directory ends the call
ScrapeDirectory ==
    /\ sc_pc = "start"
    /\ sc_entry = "scrape_directory"
    /\ sc_log' = Append(sc_log,
                        IF sc_dir_exists
                        THEN [level |-> "info", msg |-> "Found files",
                              at |-> <<Len(yaml_files), 0, 0>>]
                        ELSE [level |-> "error", msg |-> "Directory not found",
                              at |-> <<0, 0, 0>>])
    /\ sc_pc' = IF sc_dir_exists /\ yaml_files # <<>> THEN "loop" ELSE "done"
    /\ UNCHANGED <<db_meets, db_events, db_added, db_calls, sc_entry,
                   sc_dir_exists, yaml_files, sc_mappings, sc_i,
                   except_scraper>>

\* the scraper as the loop body finds it
Self ==
    [meets |-> db_meets, events |-> db_events, added |-> db_added,
     log |-> sc_log, mappings |-> sc_mappings, raised |-> ""]

\* the loop body has left the scraper as  st : an exception still in flight
\* leaves the loop, otherwise the loop goes on to the next file
Iterated(st) ==
    /\ db_meets' = st.meets
    /\ db_events' = st.events
    /\ db_added' = st.added
    /\ sc_log' = st.log
    /\ sc_mappings' = st.mappings
    /\ sc_i' = sc_i + 1
    /\ sc_pc' = IF st.raised # "" THEN "aborted"
                ELSE IF sc_i + 1 > Len(yaml_files) THEN "done"
                ELSE "loop"

\* one pass of  for yaml_file in yaml_files: try: self.scrape_meet(yaml_file)
\* except Exception ...
ScrapeMeet ==
    /\ sc_pc = "loop"
    /\ \E storage_ok \in BOOLEAN :
          Iterated(except_exception(scrape_meet(Self, sc_i, yaml_files[sc_i],
                                                storage_ok), sc_i))
    /\ UNCHANGED <<db_calls, sc_entry, sc_dir_exists, yaml_files,
                   except_scraper>>

----------------------------------------------------------------------------
(* Specifications: one per component, the others left unconfigured *)

InitSchool ==
    SchoolInit /\ EventUnused /\ ParseUnused /\ ExtractUnused
        /\ ScraperUnused
NextSchool == IsTargetSchool \/ SchoolDone
SpecSchool == InitSchool /\ [][NextSchool]_vars

InitEvent ==
    EventInit /\ SchoolUnused /\ ParseUnused /\ ExtractUnused
        /\ ScraperUnused
NextEvent == Match \/ EventDone
SpecEvent == InitEvent /\ [][NextEvent]_vars

InitParse ==
    ParseUnused /\ SchoolUnused /\ EventUnused /\ ExtractUnused
        /\ ScraperUnused
NextParse == ParseTime \/ ParseDistance \/ ParseWind \/ SplitName \/ ParseDone
SpecParse == InitParse /\ [][NextParse]_vars

InitFormat ==
    ParseUnused /\ SchoolUnused /\ EventUnused /\ ExtractUnused
        /\ ScraperUnused
NextFormat == FormatTime \/ ParseFormatted \/ ParseDone
SpecFormat == InitFormat /\ [][NextFormat]_vars

InitExtract ==
    ExtractInit("all", 0) /\ SchoolUnused /\ EventUnused /\ ParseUnused
        /\ ScraperUnused
NextExtract ==
    ParseHyTek \/ ParseMulti \/ ParseSingle \/ ParseGeneric \/ ExtractDone
SpecExtract == InitExtract /\ [][NextExtract]_vars

InitRegistry ==
    ExtractInit("examples", MaxCalls) /\ SchoolUnused /\ EventUnused
        /\ ParseUnused /\ ScraperUnused
SpecRegistry == InitRegistry /\ [][NextExtract]_vars

InitSection ==
    ExtractInit("sections", 0) /\ SchoolUnused /\ EventUnused /\ ParseUnused
        /\ ScraperUnused
NextSection == FindSectionMulti \/ FindSectionSingle \/ ExtractDone
SpecSection == InitSection /\ [][NextSection]_vars

InitCells ==
    ExtractInit("cells", 0) /\ SchoolUnused /\ EventUnused /\ ParseUnused
        /\ ScraperUnused
NextCells == ExtractFromCells \/ ExtractDone
SpecCells == InitCells /\ [][NextCells]_vars

InitHyTek ==
    ExtractInit("hytek", 0) /\ SchoolUnused /\ EventUnused /\ ParseUnused
        /\ ScraperUnused
NextHyTek == ParseHyTek \/ ExtractDone
SpecHyTek == InitHyTek /\ [][NextHyTek]_vars

InitScraper ==
    ScraperInit /\ SchoolConfigured /\ EventUnused /\ ParseUnused
        /\ ExtractUnused
NextScraper == ScrapeAll \/ ScrapeDirectory \/ ScrapeMeet
SpecScraper == InitScraper /\ [][NextScraper]_vars

InitDatabase ==
    DatabaseInit /\ SchoolUnused /\ EventUnused /\ ParseUnused
        /\ ExtractUnused
NextDatabase == GetOrCreateMeet \/ GetOrCreateEvent
SpecDatabase == InitDatabase /\ [][NextDatabase]_vars

----------------------------------------------------------------------------
(* Claims about the school matcher, checked under SpecSchool *)

\* the name of the last call as the matcher compares it
SchoolLower == strip(lower(school_name))

\* C1: a name that, lowercased and trimmed, equals a target alias is the target
\* school, whatever the exclusion list holds.
C1_ExactAliasIsTarget ==
    (school_pc = "returned" /\ SchoolLower \in Range(target_aliases))
        => school_out.ret = TRUE

\* C1 happens: a mixed-case spelling of a target alias that an excluded alias
\* would veto was accepted
C1_Witness ==
    /\ school_pc = "returned"
    /\ SchoolLower \in Range(target_aliases)
    /\ school_name # SchoolLower
    /\ \E i \in DOMAIN excluded_aliases :
          /\ Len(excluded_aliases[i]) > Len(SchoolLower)
          /\ RatioGE(SchoolLower, excluded_aliases[i], ExclusionThreshold)
    /\ school_out.ret = TRUE

\* C2: a name that is no exact target alias and scores >= 85 against an
\* excluded alias is not the target school, even if it resembles a target alias.
C2_ExcludedBeforeFuzzy ==
    ( /\ school_pc = "returned"
      /\ SchoolLower \notin Range(target_aliases)
      /\ \E i \in DOMAIN excluded_aliases :
            RatioGE(SchoolLower, excluded_aliases[i], ExclusionThreshold) )
        => school_out.ret = FALSE

\* C2 happens: the vetoed name would have passed the target-alias tests
C2_Witness ==
    /\ school_pc = "returned"
    /\ school_name # <<>>
    /\ SchoolLower \notin Range(target_aliases)
    /\ \E i \in DOMAIN excluded_aliases :
          RatioGE(SchoolLower, excluded_aliases[i], ExclusionThreshold)
    /\ \E i \in DOMAIN target_aliases :
          TargetFullHit(SchoolLower, target_aliases[i], threshold)
    /\ \E i \in DOMAIN target_aliases :
          TargetPartialHit(SchoolLower, target_aliases[i])
    /\ school_out.ret = FALSE

\* C3: a name shorter than 4 characters that is no exact target alias and whose
\* full-string similarity to every target alias is below the threshold is not the
\* target school, even if its partial overlap with a target alias is >= 90.
C3_ShortNameNeedsFullMatch ==
    ( /\ school_pc = "returned"
      /\ Len(SchoolLower) < MinPartialLen
      /\ SchoolLower \notin Range(target_aliases)
      /\ \A i \in DOMAIN target_aliases :
            ~TargetFullHit(SchoolLower, target_aliases[i], threshold) )
        => school_out.ret = FALSE

\* C3 happens: a 2-character abbreviation contained in a target alias, vetoed by
\* no excluded alias, was rejected at the end of the function
C3_Witness ==
    /\ school_pc = "returned"
    /\ Len(SchoolLower) = 2
    /\ SchoolLower \notin Range(target_aliases)
    /\ \A i \in DOMAIN target_aliases :
          ~TargetFullHit(SchoolLower, target_aliases[i], threshold)
    /\ \E i \in DOMAIN target_aliases :
          /\ contains(target_aliases[i], SchoolLower)
          /\ PartialRatioGE(SchoolLower, target_aliases[i], PartialThreshold)
    /\ school_out = [ret |-> FALSE, line |-> 68]

----------------------------------------------------------------------------
(* Claims about the event matcher, checked under SpecEvent *)

\* the label of the last call as the matcher looks it up
EventLower == normalize(event_name)

\* the similarity of the looked-up label to the alias key  k
KeyScore(k) == ratio(EventLower, alias_map[k].key)

\* the last call took the fuzzy path
OnFuzzyPath ==
    event_pc = "returned" /\ event_name # <<>> /\ ~HasKey(alias_map, EventLower)

\* C4: with a gender hint M or F, match never returns an event that is
\* gender-specific for the other gender, on the exact path or the fuzzy path.
C4_NeverWrongGender ==
    (event_pc = "returned" /\ event_gender \in {"M", "F"} /\ event_out.ret # None)
        => LET info == get_event_info(events, event_out.ret)
           IN  info # 0 =>
                  events[info].gender_specific \in {"none", event_gender}

\* C5: a label whose normalized form is a key of the alias table is answered
\* with the canonical name of that key, at the exact-lookup return, for every
\* gender hint.
C5_ExactAliasReturnsImmediately ==
    (event_pc = "returned" /\ event_name # <<>> /\ HasKey(alias_map, EventLower))
        => event_out = [ret |-> Lookup(alias_map, EventLower), line |-> 56,
                        alias |-> 0]

\* C5 happens: an exact alias of a gender-specific event was asked for with the
\* other gender and answered from the table
C5_Witness ==
    /\ event_pc = "returned"
    /\ event_gender \in {"M", "F"}
    /\ HasKey(alias_map, EventLower)
    /\ EventLower # lower(event_name)
    /\ \E i \in DOMAIN events :
          /\ events[i].name = event_out.ret
          /\ events[i].gender_specific \notin {"none", event_gender}
    /\ event_out.line = 56

\* C6 as claimed: a label whose best similarity does not exceed 75 (a best
\* score of exactly 75 included) yields no match.
C6_NoMatchUnlessAboveCutoff ==
    (OnFuzzyPath /\ \A k \in DOMAIN alias_map :
                       ~ScoreGT(KeyScore(k), [num |-> ScoreCutoff, den |-> 1]))
        => event_out.ret = None

\* C6 as amended: on the fuzzy path an alias is accepted exactly if some alias
\* scores at least 75; below 75 there is no match, and the accepted alias
\* scores at least 75.
C6_CutoffIsInclusive ==
    OnFuzzyPath =>
        /\ (\A k \in DOMAIN alias_map : ~ScoreGE(KeyScore(k), ScoreCutoff))
              => event_out = [ret |-> None, line |-> 80, alias |-> 0]
        /\ (\E k \in DOMAIN alias_map : ScoreGE(KeyScore(k), ScoreCutoff))
              => event_out.alias # 0
        /\ event_out.alias # 0 => ScoreGE(KeyScore(event_out.alias), ScoreCutoff)

\* C6 happens: the best score is exactly 75 and the label is matched
C6_Witness ==
    /\ OnFuzzyPath
    /\ \A k \in DOMAIN alias_map :
          ~ScoreGT(KeyScore(k), [num |-> ScoreCutoff, den |-> 1])
    /\ event_out.alias # 0
    /\ event_out.line = 78
    /\ event_out.ret = alias_map[event_out.alias].val

\* C7: the alias matched on the fuzzy path has the best score, and every alias
\* before it in the table's order scores strictly less; the canonical name
\* returned is that alias's.
C7_FirstBestAliasWins ==
    (event_pc = "returned" /\ event_out.alias # 0) =>
        /\ \A k \in DOMAIN alias_map :
              /\ ~ScoreGT(KeyScore(k), KeyScore(event_out.alias))
              /\ k < event_out.alias
                    => ScoreGT(KeyScore(event_out.alias), KeyScore(k))
        /\ event_out.line = 78 => event_out.ret = alias_map[event_out.alias].val

\* C7 happens: two aliases of different events tie for the best score and the
\* earlier one decided the result
C7_Witness ==
    /\ event_pc = "returned"
    /\ event_out.alias # 0
    /\ \E k \in DOMAIN alias_map :
          /\ k > event_out.alias
          /\ ~ScoreGT(KeyScore(event_out.alias), KeyScore(k))
          /\ alias_map[k].val # alias_map[event_out.alias].val
    /\ event_out.ret = alias_map[event_out.alias].val

\* the tokens the normalization is said to remove
ClaimedGenderTokens == {Str("boys"), Str("girls"), Str("men's"), Str("women's")}
ClaimedRoundTokens == {Str("finals"), Str("prelims"), Str("heats")}

\* C8: a label made of a gender token, an alias and a round token is answered
\* like the alias alone, by the exact lookup.
C8_GenderAndRoundTokensStripped ==
    event_pc = "returned" =>
        \A k \in DOMAIN alias_map, g \in ClaimedGenderTokens, r \in ClaimedRoundTokens :
            lower(event_name) = g \o <<" ">> \o alias_map[k].key \o <<" ">> \o r
                => event_out = [ret |-> alias_map[k].val, line |-> 56, alias |-> 0]

\* C9: every canonical name is its own alias: match(c.name) with no gender hint
\* returns c.name, and the table maps the lowercase name of every event to it.
C9_CanonicalNameIsOwnAlias ==
    /\ \A i \in DOMAIN events :
          /\ HasKey(alias_map, lower(events[i].name))
          /\ event_pc = "returned" => Lookup(alias_map, lower(events[i].name)) = events[i].name
    /\ (event_pc = "returned" /\ event_gender = "none")
          => \A i \in DOMAIN events :
                event_name = events[i].name => event_out.ret = events[i].name

----------------------------------------------------------------------------
(* Claims about the shared value parsers, checked under SpecParse *)

\* C10: every call of parse_time_to_seconds, parse_distance_to_meters,
\* parse_wind or split_name returns a value or None; none of them raises.
C10_ParsersNeverRaise ==
    parse_pc = "returned" => parse_out.kind \in {"value", "none", "name"}

\* the colon-separated fields of the last time text, its blanks and trailing
\* letters removed
TimeParts == split(sub_trailing_letters(strip(parse_in)), ":")

\* every field but the last is an integer and the last is a decimal number
TimePartsNumeric ==
    /\ \A i \in 1..(Len(TimeParts) - 1) : int(TimeParts[i]).ok
    /\ float(TimeParts[Len(TimeParts)]).ok

\* the whole minutes and hours the fields of the last time text denote
TimeMinutes == IF Len(TimeParts) >= 2 THEN int(TimeParts[Len(TimeParts) - 1]).num ELSE 0
TimeHours == IF Len(TimeParts) >= 3 THEN int(TimeParts[Len(TimeParts) - 2]).num ELSE 0

\* C11: parse_time_to_seconds accepts a text exactly if, its trailing letters
\* removed, it has at most three colon-separated fields that are all numeric,
\* and then returns seconds + 60 * minutes + 3600 * hours; every other text
\* gives None.
C11_TimeShapes ==
    (parse_pc = "returned" /\ parse_fn = "parse_time_to_seconds") =>
        IF Len(TimeParts) <= 3 /\ TimePartsNumeric
        THEN LET s == float(TimeParts[Len(TimeParts)])
             IN  /\ parse_out.kind = "value"
                 /\ parse_out.num * s.den
                       = parse_out.den * (s.num + s.den * (60 * TimeMinutes
                                                           + 3600 * TimeHours))
        ELSE parse_out = NoValue

\* C11 happens: an hours:minutes:seconds text with a letter suffix was parsed
C11_Witness ==
    /\ parse_pc = "returned"
    /\ parse_fn = "parse_time_to_seconds"
    /\ Len(TimeParts) = 3
    /\ IsLetter(parse_in[Len(parse_in)])
    /\ TimeHours > 0
    /\ parse_out.kind = "value"
    /\ parse_out.num > 3600 * parse_out.den

\* the last call was parse_distance_to_meters on the text  t
DistanceOf(t) ==
    parse_pc = "returned" /\ parse_fn = "parse_distance_to_meters" /\ parse_in = t

\* the returned value is within  tol / 1000  of  milli / 1000
WithinThousandths(v, milli, tol) ==
    /\ v.kind = "value"
    /\ 1000 * v.num - milli * v.den <= tol * v.den
    /\ milli * v.den - 1000 * v.num <= tol * v.den

\* a plain decimal number: digits with at most one point, a digit on each side
\* of the point
IsDecimal(t) ==
    /\ t # <<>>
    /\ \A i \in DOMAIN t : IsDigit(t[i]) \/ t[i] = "."
    /\ Cardinality({i \in DOMAIN t : t[i] = "."}) <= 1
    /\ IsDigit(t[1]) /\ IsDigit(t[Len(t)])

\* the positions at which the token  t  splits into whole feet, a separator
\* and decimal inches (an inch mark may end it)
FeetInchesSplits(t) ==
    {i \in DOMAIN t :
        /\ i > 1
        /\ t[i] \in {"'", "-"}
        /\ AllDigits(SubSeq(t, 1, i - 1))
        /\ \E j \in {Len(t), Len(t) - 1} :
              /\ j > i
              /\ j = Len(t) \/ t[Len(t)] \in {"'", "\""}
              /\ IsDecimal(lstrip(SubSeq(t, i + 1, j)))}

\* the inches text of a token that splits at  i
InchesText(t, i) ==
    lstrip(SubSeq(t, i + 1, IF IsDigit(t[Len(t)]) THEN Len(t) ELSE Len(t) - 1))

\* C13 as claimed: "45-06.50" is parsed to a value within 0.001 of 13.886 m.
C13_FeetInchesExampleAsClaimed ==
    DistanceOf(Str("45-06.50")) => WithinThousandths(parse_out, 13886, 1)

\* C13 as amended: "45-06.50" gives 45*0.3048 + 6.5*0.0254 = 13.8811 m, within
\* 0.001 of 13.881; "13.87m" and "13.87" give 13.87; a feet/inches token gives
\* feet*0.3048 + inches*0.0254; a decimal number with an m/M unit or with no
\* unit is returned as metres.
C13_DistanceValues ==
    (parse_pc = "returned" /\ parse_fn = "parse_distance_to_meters") =>
        LET t == strip(parse_in)
            body == rstrip(SubSeq(t, 1, Len(t) - 1))
        IN  /\ parse_in = Str("45-06.50")
                  => /\ parse_out = Value(138811, 10000)
                     /\ WithinThousandths(parse_out, 13881, 1)
            /\ parse_in \in {Str("13.87m"), Str("13.87")}
                  => parse_out = Value(1387, 100)
            /\ \A i \in FeetInchesSplits(t) :
                  LET feet == DigitsVal(SubSeq(t, 1, i - 1), 0)
                      inches == float(InchesText(t, i))
                  IN  parse_out = Value(feet * 3048 * inches.den + inches.num * 254,
                                        10000 * inches.den)
            /\ IsDecimal(t)
                  => parse_out = Value(float(t).num, float(t).den)
            /\ (t # <<>> /\ t[Len(t)] \in {"m", "M"} /\ IsDecimal(body))
                  => parse_out = Value(float(body).num, float(body).den)

\* C13 happens: "45-06.50" was parsed to 13.8811 m
C13_Witness ==
    /\ DistanceOf(Str("45-06.50"))
    /\ FeetInchesSplits(parse_in) = {3}
    /\ parse_out = Value(138811, 10000)

----------------------------------------------------------------------------
(* Claims about the display of times, checked under SpecFormat *)

\* the time s in the fixed shape M:SS.ss, minutes shown also when they are 0
MinutesSecondsText(h) ==
    IntText(h \div 6000) \o <<":">> \o ZeroPad(Fixed2(h % 6000), 5)

\* the value  v  is within one hundredth of  h  hundredths
WithinHundredth(v, h) ==
    /\ v.kind = "value"
    /\ 100 * v.num - h * v.den <= v.den
    /\ h * v.den - 100 * v.num <= v.den

\* C12: a time of 0 .. 5999.99 s, formatted by format_time and read back by
\* parse_time_to_seconds, comes back within 0.01 s; so does its text in the
\* shape M:SS.ss.
C12_TimeRoundTrip ==
    (parse_pc = "returned" /\ parse_fn = "parse_time_to_seconds"
                           /\ parse_in = format_time(fmt_seconds))
        => /\ WithinHundredth(parse_out, fmt_seconds)
           /\ WithinHundredth(parse_time_to_seconds(MinutesSecondsText(fmt_seconds)),
                              fmt_seconds)

\* C12 happens: the largest time, 99:59.99, went through format and parse
C12_Witness ==
    /\ parse_pc = "returned"
    /\ fmt_seconds = 599999
    /\ parse_in = Str("99:59.99")
    /\ parse_out = Value(599999, 100)

----------------------------------------------------------------------------
(* Claims about the extractors *)

\* the results of the call that has just returned
ReturnedResults == IF ex_pc = "returned" THEN ex_out.results ELSE <<>>

HeaderAbsent ==
    /\ ex_pc = "returned"
    /\ ex_cfg.event_header # <<>>
    /\ ~contains(lower(ex_file.content), lower(ex_cfg.event_header))

\* C15: for every extractor, a call whose non-empty event_header does not
\* occur in the document returns the empty sequence and does not raise.
C15_AbsentHeaderGivesNothing == HeaderAbsent => ex_out = Results(<<>>)

\* a timing-system file with a relay only was read in full, and the call
\* returned
RelayRead ==
    /\ ex_pc = "returned"
    /\ ex_parser = "hytek_text"
    /\ ~ex_cfg.has_canonical
    /\ ex_file.rows = <<>>
    /\ ex_out.kind = "results"

\* what a result tells of its member and its team
MemberView(name, team) ==
    [athlete_name |-> name, school |-> team.school, place |-> int(team.place).num,
     mark_display |-> team.mark, relay_team |-> team.letter]

\* one view per listed member, team after team, in the order of the file
ListedMembers(teams) ==
    flatten([t \in DOMAIN teams |->
                LET members == members_of(teams[t])
                IN  [m \in DOMAIN members |->
                        MemberView(members[m].first \o Str(" ") \o members[m].last,
                                   teams[t])]])

\* C16: in a relay block every team header with its member entries yields
\* exactly one result per listed member, in the order the members are
\* listed, each with the team's school, place, mark_display and team letter.
C16_OneResultPerListedMember ==
    RelayRead =>
        [i \in DOMAIN ex_out.results |->
            LET r == ex_out.results[i]
            IN  [athlete_name |-> r.athlete_name, school |-> r.school,
                 place |-> r.place, mark_display |-> r.mark_display,
                 relay_team |-> r.relay_team]]
          = ListedMembers(ex_file.teams)

\* a timing-system file was read in full, and the call returned
HyTekRead ==
    /\ ex_pc = "returned"
    /\ ex_parser = "hytek_text"
    /\ ~ex_cfg.has_canonical
    /\ ex_out.kind = "results"

\* the athlete_name the extractor gives the athlete of a row
RowName(row) == row.first \o Str(" ") \o row.last

\* C17: an individual-event row whose mark field is a pure letter code (DNS,
\* DNF, DQ, ...) produces no result.
C17_LetterCodeRowsDropped ==
    HyTekRead =>
        \A i \in DOMAIN ex_file.rows :
            IsLetterCode(ex_file.rows[i].mark) =>
                \A j \in DOMAIN ex_out.results :
                    ex_out.results[j].athlete_name # RowName(ex_file.rows[i])

\* an earlier call that went through the same extractor with the same
\* document and the same event_config as the call that has just returned
SameCall(h) ==
    /\ h.parser = ex_parser
    /\ h.file.content = ex_file.content
    /\ h.config = ex_cfg

C19_ExtractorsNeverRaise == ex_pc = "returned" => ex_out.kind = "results"

\* how many cells of a row are words of the header vocabulary
HeaderTokens(row) ==
    Cardinality({i \in DOMAIN row : lower(row[i]) \in HeaderWords})

\* the generic extractor read, for a timed event, a whole file that has
\* neither a title nor column heads, so that no row of it has two header
\* words
OnlyDataRows ==
    /\ ex_pc = "returned"
    /\ ex_parser = "generic_table"
    /\ ex_cfg.event_header = <<>>
    /\ ex_cfg.canonical_event = Str("100m")
    /\ ex_file.title = <<>>
    /\ ex_file.head = <<>>
    /\ \A i \in DOMAIN ex_file.rows :
           HeaderTokens(ex_file.rows[i]) < MinHeaderMatches

\* the names the rows give when each is read as a data row
RECURSIVE DataRowNames(_)
DataRowNames(rows) ==
    IF rows = <<>> THEN <<>>
    ELSE LET name == auto_detect_cells(rows[1], TRUE).result.athlete_name
         IN  (IF name = <<>> THEN <<>> ELSE <<name>>) \o DataRowNames(Tail(rows))

\* C20: in the generic table extractor a row with fewer than two tokens of
\* the header vocabulary (a single cell "Place", the first row of a table of
\* markup that holds only data) is parsed as a data row and is not skipped.
C20_RowsBelowTwoHeaderWordsAreData ==
    OnlyDataRows =>
        [i \in DOMAIN ex_out.results |-> ex_out.results[i].athlete_name]
          = DataRowNames(ex_file.rows)

----------------------------------------------------------------------------
(* Claims about the orchestrator, checked under SpecScraper *)

LoggedAt(msg, at) == \E l \in DOMAIN sc_log : sc_log[l].msg = msg
                                              /\ sc_log[l].at = at

\* the results of a listed event that pass is_target_school and carry a name
TargetResults(event_config) ==
    {r \in Range(event_config.parsed.results) :
        /\ is_target_school(r.school, target_aliases, threshold,
                            excluded_aliases).ret
        /\ r.athlete_name # <<>>}

\* the listed event was parsed without an exception and names its event
ParsedEvent(event_config) ==
    /\ event_config.canonical_event \notin {None, <<>>}
    /\ event_config.parsed.kind = "results"

\* C21: once a meet has been handled, every event listed by each of its
\* sources that was processed has been attempted, and every result of a
\* successfully parsed listed event whose school is the target school has
\* been handed to add_result.
C21_ListedEventsProcessed ==
    \A m \in DOMAIN yaml_files :
      \A s \in DOMAIN yaml_files[m].sources :
        (m < sc_i /\ LoggedAt("Processing source", <<m, s, 0>>))
        => \A k \in DOMAIN yaml_files[m].sources[s].events :
              /\ LoggedAt("Processing event", <<m, s, k>>)
              /\ ParsedEvent(yaml_files[m].sources[s].events[k])
                 => \A r \in TargetResults(yaml_files[m].sources[s].events[k]) :
                       \E a \in DOMAIN db_added : db_added[a].mark = r.mark

IsMeetLine(entry) == entry.msg = "Processing meet"

\* the meet files attempted so far, in the order of the attempts
AttemptedMeets ==
    [k \in DOMAIN SelectSeq(sc_log, IsMeetLine) |->
        SelectSeq(sc_log, IsMeetLine)[k].at[1]]

\* C22: no exception leaves the loop of scrape_all or scrape_directory: the
\* files attempted so far are the files before the loop's position, each
\* once and in list order, and when the call ends the loop has passed every
\* file found.
C22_EveryMeetAttemptedOnce ==
    /\ sc_pc # "aborted"
    /\ AttemptedMeets = [k \in 1..(sc_i - 1) |-> k]
    /\ (sc_pc = "done" /\ sc_dir_exists /\ sc_entry # "none")
       => sc_i = Len(yaml_files) + 1

\* two files were found, the first raised and the second was attempted
C22_Witness ==
    /\ sc_pc = "done"
    /\ Len(yaml_files) = 2
    /\ LoggedAt("Error processing", <<1, 0, 0>>)
    /\ LoggedAt("Processing meet", <<2, 0, 0>>)
    /\ ~LoggedAt("Error processing", <<2, 0, 0>>)

----------------------------------------------------------------------------
(* Claims about the database, checked under SpecDatabase *)

\* the rows of the table a call's key denotes
KeyRows(call) ==
    IF call.fn = "get_or_create_meet"
    THEN {i \in DOMAIN db_meets : /\ db_meets[i].name = call.name
                                  /\ db_meets[i].meet_date = call.meet_date}
    ELSE {i \in DOMAIN db_events : db_events[i].name = call.name}

\* C30: two get_or_create_meet calls with the same name and the same date, a
\* missing date included, return the same id and leave one row for the key;
\* two get_or_create_event calls with the same name return the same id and
\* leave one row for the name.
C30_GetOrCreateIdempotent ==
    \A a, b \in DOMAIN db_calls :
        (/\ db_calls[a].fn = db_calls[b].fn
         /\ db_calls[a].name = db_calls[b].name
         /\ db_calls[a].meet_date = db_calls[b].meet_date)
        => /\ db_calls[a].id = db_calls[b].id
           /\ Cardinality(KeyRows(db_calls[a])) = 1

----------------------------------------------------------------------------
(* Claims about find_event_section, checked under SpecSection *)

GenderWords ==
    {Str("boys"), Str("girls"), Str("men"), Str("men'"), Str("mens"),
     Str("men's"), Str("women"), Str("women'"), Str("womens"), Str("women's")}

\* text  begins with an event word, after digits and blanks if there are any
EventWordNext(text) ==
    \E w \in Range(SectionEvents) :
        StartsWith(lstrip(Drop(text, SpanLen(text, DigitSet))), w)

\* text  begins with a gender word, blanks, and an event name
StartsEventTitle(text) ==
    \E g \in GenderWords :
        /\ StartsWith(text, g)
        /\ Len(lstrip(Drop(text, Len(g)))) < Len(Drop(text, Len(g)))
        /\ EventWordNext(lstrip(Drop(text, Len(g))))

\* the newlines of  content  from position  from  on after which, blanks
\* skipped, a line with an event title begins
TitleBreaks(content, from) ==
    {p \in from..Len(content) :
        /\ content[p] = "\n"
        /\ StartsEventTitle(lstrip(Drop(lower(content), p)))}

\* the header was given, the page has it, and a later line is an event title
SectionCase ==
    /\ ex_pc = "returned"
    /\ ex_parser = "milesplit_multi"
    /\ ex_cfg.event_header # <<>>
    /\ find(lower(ex_file.content), lower(ex_cfg.event_header)) # 0

\* C23: MilesplitMultiParser.find_event_section returns the whole page for an
\* empty header and the empty string for a header the page does not have;
\* otherwise the part of the page from the first occurrence of the header,
\* whatever its case, up to the line break before the first later line that
\* begins an event title, or up to the end of the page if there is none.
C23_SectionBounds ==
    (ex_pc = "returned" /\ ex_parser = "milesplit_multi")
    => IF ex_cfg.event_header = <<>> THEN ex_out.results = ex_file.content
       ELSE IF ~SectionCase THEN ex_out.results = <<>>
       ELSE ex_out.results =
              SubSeq(ex_file.content,
                     find(lower(ex_file.content), lower(ex_cfg.event_header)),
                     IF TitleBreaks(ex_file.content,
                                    find(lower(ex_file.content),
                                         lower(ex_cfg.event_header))
                                      + Len(ex_cfg.event_header)) = {}
                     THEN Len(ex_file.content)
                     ELSE Least(TitleBreaks(ex_file.content,
                                            find(lower(ex_file.content),
                                                 lower(ex_cfg.event_header))
                                              + Len(ex_cfg.event_header))) - 1)

\* a header in another case than the page's, found within the first line,
\* with an event title two lines later
C23_Witness ==
    /\ SectionCase
    /\ ex_cfg.event_header = Str("100 m")
    /\ ex_file.content = Str("Boys 100 Meters\n\n girls Shot Put")
    /\ ex_out.results = Str("100 Meters")

\* the lines of the page the call was given, and how many of them the
\* section has lost
PageLines == split(ex_file.content, "\n")
Removed ==
    CHOOSE k \in 0..Len(PageLines) :
        ex_out.results = join(Drop(PageLines, k), <<"\n">>)

\* C24: MilesplitSingleParser.find_event_section returns the page from some
\* line on, unchanged; every line before it that is not blank is a header
\* line, the first line of the result that is not blank is not a header line,
\* and the result is the same for every event_header.
C24_LeadingHeadersSkipped ==
    (ex_pc = "returned" /\ ex_parser = "milesplit_single")
    => /\ \E k \in 0..Len(PageLines) :
             ex_out.results = join(Drop(PageLines, k), <<"\n">>)
       /\ \A i \in 1..Removed :
             strip(PageLines[i]) = <<>> \/ is_header_line(PageLines[i])
       /\ \A i \in (Removed + 1)..Len(PageLines) :
             (\A j \in (Removed + 1)..(i - 1) : strip(PageLines[j]) = <<>>)
             => strip(PageLines[i]) = <<>> \/ ~is_header_line(PageLines[i])
       /\ \A event_header \in SectionHeaders :
             single_find_event_section(ex_file.content, event_header)
               = ex_out.results

\* two header lines were removed, and a header line after the first row stays
C24_Witness ==
    /\ ex_pc = "returned"
    /\ ex_parser = "milesplit_single"
    /\ ex_file.content = Str("Boys 100 Meters\n==\n1 Al Erie 11.45")
    /\ ex_out.results = Str("1 Al Erie 11.45")
    /\ ex_cfg.event_header = Str("Discus")

----------------------------------------------------------------------------
(* Claims about _extract_from_cells, checked under SpecCells *)

\* the row, the column map and the kind of event of the call that returned
CallCells == ex_file.rows[1]
CallMap == detect_columns(ex_file.head)
CallTimed == is_timed_event(ex_cfg.canonical_event)

\* the cell of a mapped column of the row, or nothing
MappedCell(col) ==
    IF CallMap[col] # 0 /\ CallMap[col] <= Len(CallCells)
    THEN CallCells[CallMap[col]] ELSE <<>>

CellsReturned ==
    /\ ex_pc = "returned"
    /\ ex_parser = "generic_table"
    /\ ex_out.kind = "results"

\* C25: when the mapped name column gives a name, the record returned by
\* _extract_from_cells holds the cells of the mapped columns and nothing
\* else; when it gives none, the record is the one auto-detection builds
\* from the cells, with no field of the mapped columns in it.
C25_TwoStages ==
    CellsReturned
    => IF MappedCell("name") # <<>>
       THEN /\ ex_out.results[1].athlete_name = MappedCell("name")
            /\ ex_out.results[1].school = MappedCell("school")
            /\ ex_out.results[1].mark_display = MappedCell("mark")
            /\ MappedCell("mark") = <<>> => ex_out.results[1].mark = NoValue
            /\ ex_out.results[1].place
                 = IF isdigit(MappedCell("place"))
                   THEN int(MappedCell("place")).num ELSE Absent
       ELSE ex_out.results[1] = auto_detect_cells(CallCells, CallTimed).result

\* the name column is empty, the mapped place column holds a place that
\* auto-detection does not take for one, and the record has no place
C25_Witness ==
    /\ CellsReturned
    /\ ex_file.head = <<Str("Name"), Str("Pl"), Str("Time")>>
    /\ CallCells = <<<<>>, Str("1"), Str("Erie")>>
    /\ ex_out.results[1].place = Absent
    /\ ex_out.results[1].athlete_name = Str("Erie")

----------------------------------------------------------------------------
(* Claims about the multi-event extractor's text mode, checked under
   SpecExtract *)

\* a plain-text page was parsed by the multi-event extractor
TextPageParsed ==
    /\ ex_pc = "returned"
    /\ ex_parser = "milesplit_multi"
    /\ ex_file.format = "text"
    /\ ex_out.kind = "results"

\* C28: on a plain-text page the multi-event extractor emits no result whose
\* athlete_name is the text of the event header line the section begins
\* with.
C28_HeaderLineNotEmitted ==
    (TextPageParsed /\ ex_file.title # <<>>
       /\ ex_cfg.event_header = ex_file.title)
    => \A i \in DOMAIN ex_out.results :
           ex_out.results[i].athlete_name # ex_file.title

----------------------------------------------------------------------------
(* Claims about the timing-system extractor, checked under SpecHyTek *)

HyTekReturned ==
    /\ ex_pc = "returned"
    /\ ex_parser = "hytek_text"
    /\ ex_out.kind = "results"

\* a mark token without the letters in front of and behind its number
BareToken(token) ==
    sub_trailing_letters(Drop(token, SpanLen(token, Letters)))

\* what the shared primitives give for a bare token
SharedMark(bare) ==
    IF "-" \in Range(bare) /\ ":" \notin Range(bare)
    THEN parse_distance_to_meters(bare)
    ELSE parse_time_to_seconds(bare)

\* C26: the mark the timing-system extractor stores for a row is what the
\* shared primitives return for the row's mark token without its status
\* letters: parse_time_to_seconds for SS.ss, M:SS.ss and H:MM:SS.ss,
\* parse_distance_to_meters for feet and inches.
C26_MarksAsSharedPrimitives ==
    HyTekReturned
    => \A i \in DOMAIN ex_out.results :
           ex_out.results[i].relay_team = None
           => ex_out.results[i].mark
                = SharedMark(BareToken(ex_out.results[i].mark_display))

\* C27: every result of a relay event carries the school, place, mark and
\* team letter of the team under whose line its athlete is listed in the
\* file.
C27_MembersWithTheirTeam ==
    (HyTekReturned /\ ~ex_cfg.has_canonical /\ ex_file.rows = <<>>)
    => \A i \in DOMAIN ex_out.results :
           MemberView(ex_out.results[i].athlete_name,
                      [school |-> ex_out.results[i].school,
                       place |-> IntText(ex_out.results[i].place),
                       mark |-> ex_out.results[i].mark_display,
                       letter |-> ex_out.results[i].relay_team])
             \in Range(ListedMembers(ex_file.teams))

\* C29: parse called with gender 'boys' and the canonical name of an event
\* on a file that holds that event under the header "Event 3  Boys 100 Meter
\* Dash" returns the rows of the event.
C29_RequestedEventReturned ==
    (/\ HyTekReturned
     /\ ex_file.title = BoysHeader
     /\ ex_cfg.has_canonical
     /\ lower(ex_cfg.gender) = Str("boys"))
    => /\ Len(ex_out.results) = 1
       /\ ex_out.results[1].athlete_name = Str("Ben Ko")

====
